---- MODULE Spec2Model ----
(***************************************************************************)
(* A model of the comparison engines and of the shareable-state codec of   *)
(* the diff checker: src/utils/urlSharing.ts, components/DiffChecker.tsx,  *)
(* components/tabs/TextDiffTab.tsx, ImageDiffTab.tsx and FileDiffTab.tsx.  *)
(*                                                                         *)
(* A JavaScript string is a sequence of UTF-16 code units (naturals).      *)
(* A JavaScript value is a record [t |-> tag, v |-> payload].              *)
(***************************************************************************)
EXTENDS Integers, Sequences, FiniteSets, TLC

(***************************************************************************)
(* Strings                                                                 *)
(***************************************************************************)

\* The printable ASCII characters, code units 32..126 in order ("grave" names
\* the grave accent, code unit 96).
AsciiPrintable ==
  << " ", "!", "\"", "#", "$", "%", "&", "'", "(", ")", "*", "+", ",", "-",
     ".", "/", "0", "1", "2", "3", "4", "5", "6", "7", "8", "9", ":", ";",
     "<", "=", ">", "?", "@", "A", "B", "C", "D", "E", "F", "G", "H", "I",
     "J", "K", "L", "M", "N", "O", "P", "Q", "R", "S", "T", "U", "V", "W",
     "X", "Y", "Z", "[", "\\", "]", "^", "_", "grave", "a", "b", "c", "d", "e",
     "f", "g", "h", "i", "j", "k", "l", "m", "n", "o", "p", "q", "r", "s",
     "t", "u", "v", "w", "x", "y", "z", "{", "|", "}", "~" >>

\* The code unit of a printable ASCII character.
CharCode ==
  [c \in {AsciiPrintable[i] : i \in 1..Len(AsciiPrintable)} |->
     31 + (CHOOSE i \in 1..Len(AsciiPrintable) : AsciiPrintable[i] = c)]

\* The string spelled by a sequence of printable ASCII characters.
Str(chars) == [i \in 1..Len(chars) |-> CharCode[chars[i]]]

Min(a, b) == IF a <= b THEN a ELSE b
Max(a, b) == IF a >= b THEN a ELSE b

\* The concatenation of a sequence of strings (balanced, so that the depth of
\* the evaluation is logarithmic in the number of pieces).
RECURSIVE Flatten(_)
Flatten(ss) ==
  IF Len(ss) = 0 THEN << >>
  ELSE IF Len(ss) = 1 THEN ss[1]
  ELSE LET h == Len(ss) \div 2
       IN  Flatten(SubSeq(ss, 1, h)) \o Flatten(SubSeq(ss, h + 1, Len(ss)))

\* String.prototype.repeat
Repeat(s, n) == Flatten([i \in 1..n |-> s])

\* String.prototype.startsWith
StartsWith(s, prefix) ==
  Len(s) >= Len(prefix) /\ SubSeq(s, 1, Len(prefix)) = prefix

\* String.prototype.substring(k) (k is the 0-based index of the first unit kept)
Substring(s, k) == SubSeq(s, k + 1, Len(s))

IsSurrogate(u) == u >= 55296 /\ u <= 57343

HexDigits == Str(<< "0", "1", "2", "3", "4", "5", "6", "7", "8", "9",
                    "A", "B", "C", "D", "E", "F" >>)
LowerHexDigits == Str(<< "a", "b", "c", "d", "e", "f" >>)

IsHex(u) ==
  \/ \E i \in 1..Len(HexDigits) : HexDigits[i] = u
  \/ \E i \in 1..Len(LowerHexDigits) : LowerHexDigits[i] = u

HexVal(u) ==
  IF \E i \in 1..Len(HexDigits) : HexDigits[i] = u
  THEN (CHOOSE i \in 1..Len(HexDigits) : HexDigits[i] = u) - 1
  ELSE 9 + (CHOOSE i \in 1..Len(LowerHexDigits) : LowerHexDigits[i] = u)

\* A result of a call that may throw: ok = FALSE stands for the exception.
Ok(v) == [ok |-> TRUE, v |-> v]
Thrown == [ok |-> FALSE, v |-> << >>]

(***************************************************************************)
(* btoa / atob (base64 over binary strings)                                *)
(***************************************************************************)

Base64Alphabet ==
  Str(<< "A", "B", "C", "D", "E", "F", "G", "H", "I", "J", "K", "L", "M",
         "N", "O", "P", "Q", "R", "S", "T", "U", "V", "W", "X", "Y", "Z",
         "a", "b", "c", "d", "e", "f", "g", "h", "i", "j", "k", "l", "m",
         "n", "o", "p", "q", "r", "s", "t", "u", "v", "w", "x", "y", "z",
         "0", "1", "2", "3", "4", "5", "6", "7", "8", "9", "+", "/" >>)

IsBase64Char(u) == \E i \in 1..Len(Base64Alphabet) : Base64Alphabet[i] = u
Base64Value(u) == (CHOOSE i \in 1..Len(Base64Alphabet) : Base64Alphabet[i] = u) - 1
PadChar == CharCode["="]

\* btoa(s): throws InvalidCharacterError when a code unit exceeds 255.
Btoa(s) ==
  IF \E i \in 1..Len(s) : s[i] > 255 THEN Thrown
  ELSE
    LET n == Len(s)
        groups == (n + 2) \div 3
        byte(i) == IF i <= n THEN s[i] ELSE 0
        sextet(g, p) ==
          LET b0 == byte(3 * g + 1)
              b1 == byte(3 * g + 2)
              b2 == byte(3 * g + 3)
          IN  CASE p = 0 -> (b0 \div 4)
                [] p = 1 -> ((b0 % 4) * 16) + (b1 \div 16)
                [] p = 2 -> ((b1 % 16) * 4) + (b2 \div 64)
                [] OTHER -> (b2 % 64)
        unit(k) ==
          LET g == (k - 1) \div 4
              p == (k - 1) % 4
              real == Min(3, n - 3 * g)
          IN  IF p > real THEN PadChar
              ELSE Base64Alphabet[sextet(g, p) + 1]
    IN  Ok([k \in 1..(4 * groups) |-> unit(k)])

IsAsciiWhitespace(u) == u \in {9, 10, 12, 13, 32}

\* atob(data): the forgiving-base64 decode of the HTML standard; throws
\* InvalidCharacterError on a bad length or a character outside the alphabet.
Atob(data) ==
  LET pads(noWs) ==
        IF Len(noWs) % 4 = 0 /\ Len(noWs) >= 1 /\ noWs[Len(noWs)] = PadChar
        THEN (IF Len(noWs) >= 2 /\ noWs[Len(noWs) - 1] = PadChar THEN 2 ELSE 1)
        ELSE 0
      decode(body) ==
        LET val(i) == Base64Value(body[i])
            byte(j) ==
              CASE (j - 1) % 3 = 0 ->
                     (val((4 * ((j - 1) \div 3)) + 1) * 4)
                       + (val((4 * ((j - 1) \div 3)) + 2) \div 16)
                [] (j - 1) % 3 = 1 ->
                     ((val((4 * ((j - 1) \div 3)) + 2) % 16) * 16)
                       + (val((4 * ((j - 1) \div 3)) + 3) \div 4)
                [] OTHER ->
                     ((val((4 * ((j - 1) \div 3)) + 3) % 4) * 64)
                       + val((4 * ((j - 1) \div 3)) + 4)
        IN  IF Len(body) % 4 = 1 \/ \E i \in 1..Len(body) : ~IsBase64Char(body[i])
            THEN Thrown
            ELSE Ok([j \in 1..((Len(body) * 6) \div 8) |-> byte(j)])
      stripped(noWs) == decode(SubSeq(noWs, 1, Len(noWs) - pads(noWs)))
  IN  stripped(SelectSeq(data, LAMBDA u : ~IsAsciiWhitespace(u)))

(***************************************************************************)
(* encodeURIComponent / decodeURIComponent                                 *)
(***************************************************************************)

UriUnreserved ==
  {CharCode[AsciiPrintable[i]] : i \in 1..Len(AsciiPrintable)} \cap
  ( (CharCode["A"]..CharCode["Z"]) \cup (CharCode["a"]..CharCode["z"]) \cup
    (CharCode["0"]..CharCode["9"]) \cup
    {CharCode[c] : c \in {"-", "_", ".", "!", "~", "*", "'", "(", ")"}} )

PctChar == CharCode["%"]

PctEncode(b) == << PctChar, HexDigits[(b \div 16) + 1], HexDigits[(b % 16) + 1] >>

\* The UTF-8 bytes of a code unit of the basic multilingual plane.
Utf8Bytes(u) ==
  IF u < 128 THEN << u >>
  ELSE IF u < 2048 THEN << 192 + (u \div 64), 128 + (u % 64) >>
  ELSE << 224 + (u \div 4096), 128 + ((u \div 64) % 64), 128 + (u % 64) >>

UriEncodeUnit(u) ==
  IF u \in UriUnreserved THEN << u >>
  ELSE LET bytes == Utf8Bytes(u)
       IN  Flatten([i \in 1..Len(bytes) |-> PctEncode(bytes[i])])

\* encodeURIComponent(s): throws URIError on a lone surrogate. (Surrogate
\* pairs, i.e. characters outside the basic multilingual plane, are outside
\* the modelled alphabet; every surrogate is treated as a lone one.)
EncodeURIComponent(s) ==
  IF \E i \in 1..Len(s) : IsSurrogate(s[i]) THEN Thrown
  ELSE Ok(Flatten([i \in 1..Len(s) |-> UriEncodeUnit(s[i])]))

\* decodeURIComponent(s): throws URIError on a malformed escape or on escapes
\* that are not well-formed UTF-8. (Four-byte sequences, which decode to
\* surrogate pairs, are outside the modelled alphabet and are rejected.)
DecodeURIComponent(s) ==
  LET n == Len(s)
      isPct(i) == i >= 1 /\ i <= n /\ s[i] = PctChar
      escapeOk(i) == i + 2 <= n /\ IsHex(s[i + 1]) /\ IsHex(s[i + 2])
      byteAt(i) == (HexVal(s[i + 1]) * 16) + HexVal(s[i + 2])
      isCont(i) == isPct(i) /\ byteAt(i) \in 128..191
      isLead2(i) == isPct(i) /\ byteAt(i) \in 194..223
      isLead3(i) == isPct(i) /\ byteAt(i) \in 224..239
      code2(i) == ((byteAt(i) - 192) * 64) + (byteAt(i + 3) - 128)
      code3(i) == ((byteAt(i) - 224) * 4096) + ((byteAt(i + 3) - 128) * 64)
                    + (byteAt(i + 6) - 128)
      unitOk(i) ==
        LET b == byteAt(i)
        IN  CASE b < 128 -> TRUE
              [] b \in 128..191 ->
                   \/ isLead2(i - 3) \/ isLead3(i - 3)
                   \/ (isLead3(i - 6) /\ isCont(i - 3))
              [] b \in 194..223 -> isCont(i + 3)
              [] b \in 224..239 ->
                   /\ isCont(i + 3) /\ isCont(i + 6)
                   /\ code3(i) >= 2048 /\ ~IsSurrogate(code3(i))
              [] OTHER -> FALSE
      piece(i) ==
        IF isPct(i)
        THEN LET b == byteAt(i)
             IN  CASE b < 128 -> << b >>
                   [] b \in 128..191 -> << >>
                   [] b \in 194..223 -> << code2(i) >>
                   [] OTHER -> << code3(i) >>
        ELSE IF isPct(i - 1) \/ isPct(i - 2) THEN << >>
        ELSE << s[i] >>
  IN  IF \E i \in 1..n : isPct(i) /\ ~escapeOk(i) THEN Thrown
      ELSE IF \E i \in 1..n : isPct(i) /\ ~unitOk(i) THEN Thrown
      ELSE Ok(Flatten([i \in 1..n |-> piece(i)]))

(***************************************************************************)
(* JavaScript values and JSON                                              *)
(***************************************************************************)

\* Every value carries every payload field, so that two values of different
\* types can be compared.
JUndefined ==
  [t |-> "undefined", n |-> 0, b |-> FALSE, s |-> << >>, items |-> << >>, props |-> << >>]
JNull == [JUndefined EXCEPT !.t = "null"]
JBool(b) == [JUndefined EXCEPT !.t = "boolean", !.b = b]
JNum(n) == [JUndefined EXCEPT !.t = "number", !.n = n]
JStr(s) == [JUndefined EXCEPT !.t = "string", !.s = s]
JArr(items) == [JUndefined EXCEPT !.t = "array", !.items = items]
\* An object is the sequence of its own properties [k |-> name, v |-> value],
\* in insertion order.
JObj(props) == [JUndefined EXCEPT !.t = "object", !.props = props]
Prop(k, v) == [k |-> k, v |-> v]

HasProp(o, key) == o.t = "object" /\ \E i \in 1..Len(o.props) : o.props[i].k = key

\* o.key (undefined for a missing property and for a primitive)
Get(o, key) ==
  IF HasProp(o, key)
  THEN o.props[CHOOSE i \in 1..Len(o.props) : o.props[i].k = key].v
  ELSE JUndefined

\* o[key] = v on the property list of an object
SetProp(props, key, v) ==
  IF \E i \in 1..Len(props) : props[i].k = key
  THEN [i \in 1..Len(props) |-> IF props[i].k = key THEN Prop(key, v) ELSE props[i]]
  ELSE Append(props, Prop(key, v))

\* ToBoolean
Truthy(x) ==
  CASE x.t \in {"undefined", "null"} -> FALSE
    [] x.t = "boolean" -> x.b
    [] x.t = "number" -> x.n # 0
    [] x.t = "string" -> Len(x.s) > 0
    [] OTHER -> TRUE

QuoteChar == CharCode["\""]
BackslashChar == CharCode["\\"]

Join(pieces, sep) ==
  Flatten([i \in 1..Len(pieces) |-> IF i = 1 THEN pieces[i] ELSE sep \o pieces[i]])

RECURSIVE NumToStr(_)
NumToStr(n) ==
  IF n < 0 THEN << CharCode["-"] >> \o NumToStr(0 - n)
  ELSE IF n < 10 THEN << HexDigits[n + 1] >>
  ELSE Append(NumToStr(n \div 10), HexDigits[(n % 10) + 1])

LowerHex4(u) ==
  LET d(k) == LET h == HexDigits[k + 1]
              IN  IF h >= CharCode["A"] THEN h + (CharCode["a"] - CharCode["A"]) ELSE h
  IN  << d(u \div 4096), d((u \div 256) % 16), d((u \div 16) % 16), d(u % 16) >>

\* QuoteJSONString, one code unit
JsonEscapeUnit(u) ==
  CASE u = QuoteChar -> << BackslashChar, QuoteChar >>
    [] u = BackslashChar -> << BackslashChar, BackslashChar >>
    [] u = 8 -> << BackslashChar, CharCode["b"] >>
    [] u = 12 -> << BackslashChar, CharCode["f"] >>
    [] u = 10 -> << BackslashChar, CharCode["n"] >>
    [] u = 13 -> << BackslashChar, CharCode["r"] >>
    [] u = 9 -> << BackslashChar, CharCode["t"] >>
    [] u < 32 \/ IsSurrogate(u) -> << BackslashChar, CharCode["u"] >> \o LowerHex4(u)
    [] OTHER -> << u >>

JsonQuote(s) ==
  << QuoteChar >> \o Flatten([i \in 1..Len(s) |-> JsonEscapeUnit(s[i])]) \o << QuoteChar >>

\* JSON.stringify(x) for a value other than undefined
RECURSIVE JSONStringify(_)
JSONStringify(x) ==
  LET members(kept) ==
        << CharCode["{"] >>
        \o Join([i \in 1..Len(kept) |->
                   JsonQuote(kept[i].k) \o << CharCode[":"] >> \o JSONStringify(kept[i].v)],
                << CharCode[","] >>)
        \o << CharCode["}"] >>
  IN
  CASE x.t = "null" -> Str(<< "n", "u", "l", "l" >>)
    [] x.t = "boolean" ->
         IF x.b THEN Str(<< "t", "r", "u", "e" >>) ELSE Str(<< "f", "a", "l", "s", "e" >>)
    [] x.t = "number" -> NumToStr(x.n)
    [] x.t = "string" -> JsonQuote(x.s)
    [] x.t = "array" ->
         << CharCode["["] >>
         \o Join([i \in 1..Len(x.items) |->
                    IF x.items[i].t = "undefined" THEN Str(<< "n", "u", "l", "l" >>)
                    ELSE JSONStringify(x.items[i])], << CharCode[","] >>)
         \o << CharCode["]"] >>
    [] OTHER -> members(SelectSeq(x.props, LAMBDA pr : pr.v.t # "undefined"))

\* ---- JSON.parse ----
\* A parse step yields [ok, val, next]: next is the index of the first unit
\* not consumed.
ParseFail == [ok |-> FALSE, val |-> JUndefined, next |-> 0]
Parsed(val, next) == [ok |-> TRUE, val |-> val, next |-> next]

IsJsonWhitespace(u) == u \in {9, 10, 13, 32}
IsDigit(u) == u >= CharCode["0"] /\ u <= CharCode["9"]

RECURSIVE SkipWs(_, _)
SkipWs(s, i) == IF i <= Len(s) /\ IsJsonWhitespace(s[i]) THEN SkipWs(s, i + 1) ELSE i

\* The number of consecutive backslashes that end at index k and lie after lo.
RECURSIVE BackslashRun(_, _, _)
BackslashRun(s, k, lo) ==
  IF k > lo /\ s[k] = BackslashChar THEN 1 + BackslashRun(s, k - 1, lo) ELSE 0

SimpleEscapes ==
  [c \in {"\"", "\\", "/", "b", "f", "n", "r", "t"} |->
     CASE c = "b" -> 8 [] c = "f" -> 12 [] c = "n" -> 10 [] c = "r" -> 13
       [] c = "t" -> 9 [] OTHER -> CharCode[c]]

IsSimpleEscape(u) == \E c \in DOMAIN SimpleEscapes : CharCode[c] = u
SimpleEscapeValue(u) == SimpleEscapes[CHOOSE c \in DOMAIN SimpleEscapes : CharCode[c] = u]

\* The string token that opens at index j and closes at index close.
StringToken(s, j, close) ==
  LET escaped(p) == p > j /\ p < close /\ BackslashRun(s, p - 1, j) % 2 = 1
      isU(p) == escaped(p) /\ s[p] = CharCode["u"]
      inU(p) == \E d \in 1..4 : isU(p - d)
      hex4Ok(p) == p + 4 < close /\ \A d \in 1..4 : IsHex(s[p + d])
      hex4(p) == (HexVal(s[p + 1]) * 4096) + (HexVal(s[p + 2]) * 256)
                   + (HexVal(s[p + 3]) * 16) + HexVal(s[p + 4])
      unitOk(p) ==
        IF escaped(p) THEN (IF isU(p) THEN hex4Ok(p) ELSE IsSimpleEscape(s[p]))
        ELSE s[p] = BackslashChar \/ inU(p) \/ s[p] >= 32
      piece(p) ==
        IF escaped(p) THEN (IF isU(p) THEN << hex4(p) >> ELSE << SimpleEscapeValue(s[p]) >>)
        ELSE IF s[p] = BackslashChar \/ inU(p) THEN << >>
        ELSE << s[p] >>
  IN  IF \E p \in (j + 1)..(close - 1) : ~unitOk(p) THEN ParseFail
      ELSE Parsed(JStr(Flatten([q \in 1..(close - 1 - j) |-> piece(j + q)])), close + 1)

\* A string token that opens at index j (s[j] is the quote): it closes at the
\* first quote that an even number of backslashes precedes.
ParseString(s, j) ==
  LET closing(closes) ==
        IF closes = {} THEN ParseFail
        ELSE StringToken(s, j, CHOOSE k \in closes : \A m \in closes : k <= m)
  IN  closing({k \in (j + 1)..Len(s) :
                 s[k] = QuoteChar /\ BackslashRun(s, k - 1, j) % 2 = 0})

RECURSIVE DigitsEnd(_, _)
DigitsEnd(s, i) == IF i <= Len(s) /\ IsDigit(s[i]) THEN DigitsEnd(s, i + 1) ELSE i

RECURSIVE DigitsValue(_, _, _)
DigitsValue(s, lo, hi) ==
  IF hi < lo THEN 0
  ELSE (DigitsValue(s, lo, hi - 1) * 10) + (s[hi] - CharCode["0"])

\* A number token at index j. (Fractions and exponents are outside the
\* modelled alphabet and are rejected.)
ParseNumber(s, j) ==
  LET token(neg, first, end) ==
        IF end = first THEN ParseFail
        ELSE IF s[first] = CharCode["0"] /\ end > first + 1 THEN Parsed(JNum(0), first + 1)
        ELSE IF end <= Len(s) /\ s[end] \in {CharCode["."], CharCode["e"], CharCode["E"]}
             THEN ParseFail
        ELSE Parsed(JNum(IF neg THEN 0 - DigitsValue(s, first, end - 1)
                         ELSE DigitsValue(s, first, end - 1)), end)
      digits(neg, first) == token(neg, first, DigitsEnd(s, first))
  IN  digits(s[j] = CharCode["-"], IF s[j] = CharCode["-"] THEN j + 1 ELSE j)

ParseLiteral(s, j, word, val) ==
  IF j + Len(word) - 1 <= Len(s) /\ SubSeq(s, j, j + Len(word) - 1) = word
  THEN Parsed(val, j + Len(word))
  ELSE ParseFail

\* One recursive descent serves the three grammar positions: what = "value"
\* parses a value that starts at i; "elements" the rest of an array after
\* "[" or ","; "members" the rest of an object after "{" or ",". acc holds
\* the elements or members read so far.
RECURSIVE ParseJson(_, _, _, _)

\* After an element e of an array: "," goes on, "]" closes.
AfterElement(s, acc, e, j) ==
  IF ~e.ok \/ j > Len(s) THEN ParseFail
  ELSE IF s[j] = CharCode[","] THEN ParseJson(s, j + 1, "elements", Append(acc, e.val))
  ELSE IF s[j] = CharCode["]"] THEN Parsed(JArr(Append(acc, e.val)), j + 1)
  ELSE ParseFail

\* After the value e of the member named by key: "," goes on, "}" closes.
AfterMember(s, acc, key, e, j) ==
  IF ~e.ok \/ j > Len(s) THEN ParseFail
  ELSE IF s[j] = CharCode[","]
       THEN ParseJson(s, j + 1, "members", SetProp(acc, key.val.s, e.val))
  ELSE IF s[j] = CharCode["}"]
       THEN Parsed(JObj(SetProp(acc, key.val.s, e.val)), j + 1)
  ELSE ParseFail

MemberValue(s, key, colon) ==
  IF key.ok /\ colon <= Len(s) /\ s[colon] = CharCode[":"]
  THEN ParseJson(s, colon + 1, "value", << >>)
  ELSE ParseFail

MemberKey(s, kq) ==
  IF kq <= Len(s) /\ s[kq] = QuoteChar THEN ParseString(s, kq) ELSE ParseFail

\* The value that starts at j; k is the first index after j that is not
\* white space.
ValueAt(s, j, k) ==
  IF j > Len(s) THEN ParseFail
  ELSE CASE s[j] = QuoteChar -> ParseString(s, j)
         [] s[j] = CharCode["{"] ->
              IF k <= Len(s) /\ s[k] = CharCode["}"] THEN Parsed(JObj(<< >>), k + 1)
              ELSE ParseJson(s, j + 1, "members", << >>)
         [] s[j] = CharCode["["] ->
              IF k <= Len(s) /\ s[k] = CharCode["]"] THEN Parsed(JArr(<< >>), k + 1)
              ELSE ParseJson(s, j + 1, "elements", << >>)
         [] s[j] = CharCode["t"] -> ParseLiteral(s, j, Str(<< "t", "r", "u", "e" >>), JBool(TRUE))
         [] s[j] = CharCode["f"] ->
              ParseLiteral(s, j, Str(<< "f", "a", "l", "s", "e" >>), JBool(FALSE))
         [] s[j] = CharCode["n"] -> ParseLiteral(s, j, Str(<< "n", "u", "l", "l" >>), JNull)
         [] s[j] = CharCode["-"] \/ IsDigit(s[j]) -> ParseNumber(s, j)
         [] OTHER -> ParseFail

ParseJson(s, i, what, acc) ==
  LET value(j) == ValueAt(s, j, SkipWs(s, j + 1))
      element(e) == AfterElement(s, acc, e, SkipWs(s, e.next))
      member(key, e) == AfterMember(s, acc, key, e, SkipWs(s, e.next))
      keyed(key) == member(key, MemberValue(s, key, SkipWs(s, key.next)))
  IN  CASE what = "value" -> value(SkipWs(s, i))
        [] what = "elements" -> element(ParseJson(s, i, "value", << >>))
        [] OTHER -> keyed(MemberKey(s, SkipWs(s, i)))

ParseValue(s, i) == ParseJson(s, i, "value", << >>)

\* JSON.parse(text): [ok, v]; ok = FALSE stands for the SyntaxError thrown.
JSONParse(text) ==
  LET whole(r) ==
        IF r.ok /\ SkipWs(text, r.next) = Len(text) + 1
        THEN [ok |-> TRUE, v |-> r.val]
        ELSE [ok |-> FALSE, v |-> JUndefined]
  IN  whole(ParseValue(text, 1))

(***************************************************************************)
(* utils/urlSharing.ts                                                     *)
(***************************************************************************)

VARIABLES
  now,             \* Date.now() of the browser
  hash,            \* window.location.hash ("" or "#...")
  localStorage,    \* window.localStorage: a function from key to value
  sessionStorage,  \* window.sessionStorage of the current tab
  shareUrl,        \* the URL last returned by generateShareableURL ("" if none)
  data,            \* the SharedDiffData last given to generateShareableURL (null if none)
  typed,           \* a fragment that did not come from generateShareableURL ("" if none)
  parsed,          \* the outcome of the last parseSharedURL call
  phase            \* where the sharing scenario stands

codecVars ==
  << now, hash, localStorage, sessionStorage, shareUrl, data, typed, parsed, phase >>

\* components/DiffChecker.tsx
VARIABLES
  page,            \* "closed", "loading" (rendered, effects pending) or "mounted"
  activeTab,       \* useState<DiffMode>('text')
  leftContent,     \* useState('')
  rightContent,    \* useState('')
  diffSettings,    \* useState<any>({})
  diffResult,      \* useState<DiffResult | null>(null)
  isProcessing,    \* useState(false)
  lastToast,       \* the title of the last toast shown ("" if none)
  edits            \* the number of user interactions since the page was loaded

appVars ==
  << page, activeTab, leftContent, rightContent, diffSettings, diffResult,
     isProcessing, lastToast, edits >>

\* components/tabs/TextDiffTab.tsx
VARIABLES
  tabMounted,      \* whether <TabsContent value="text"> renders the tab
  leftText,        \* useState(initialLeftContent)
  rightText,       \* useState(initialRightContent)
  diffGranularity, \* useState(initialSettings.diffGranularity || 'lines')
  viewMode,        \* useState(initialSettings.viewMode || 'side-by-side')
  ignoreWhitespace,\* useState(initialSettings.ignoreWhitespace || false)
  ignoreCase,      \* useState(initialSettings.ignoreCase || false)
  syncDeps,        \* the dependencies the content-sync effect last ran with
  notifyDeps       \* the dependencies the notify effect last ran with

tabVars ==
  << tabMounted, leftText, rightText, diffGranularity, viewMode, ignoreWhitespace,
     ignoreCase, syncDeps, notifyDeps >>

\* components/tabs/ImageDiffTab.tsx
VARIABLES
  leftImage,       \* useState<string | null>(null), with the decoded picture
  rightImage,      \* useState<string | null>(null), with the decoded picture
  imageViewMode,   \* useState('side-by-side') of ImageDiffTab
  calculation      \* calculateDifference, while it awaits the two pictures

imageVars == << leftImage, rightImage, imageViewMode, calculation >>

\* FileDiffTab
VARIABLES
  leftFile,        \* useState<FileInfo | null>(null)
  rightFile,       \* useState<FileInfo | null>(null)
  comparisonMode,  \* useState<'binary' | 'text' | 'metadata'>('binary')
  pendingReads,    \* the FileReaders whose onload has not fired: [side, fileInfo]
  lastSelected     \* history: what the user selected last, [left, right]

fileVars == << leftFile, rightFile, comparisonMode, pendingReads, lastSelected >>

\* jsonData.length < 1000
ShareInlineLimit == 1000
\* 7 * 24 * 60 * 60 * 1000 ms
MaxAge == 7 * 24 * 60 * 60 * 1000

\* window.location.origin + window.location.pathname
BaseUrl == Str(<< "h", "t", "t", "p", ":", "/", "/", "d", "/" >>)

SharePrefix == Str(<< "s", "h", "a", "r", "e", "=" >>)
RefPrefix == Str(<< "r", "e", "f", "=" >>)
DiffKeyPrefix == Str(<< "d", "i", "f", "f", "_" >>)
SessionKeyPrefix == Str(<< "s", "h", "a", "r", "e", "_" >>)
HashChar == CharCode["#"]

KeyMode == Str(<< "m", "o", "d", "e" >>)
KeyLeftContent == Str(<< "l", "e", "f", "t", "C", "o", "n", "t", "e", "n", "t" >>)
KeyRightContent == Str(<< "r", "i", "g", "h", "t", "C", "o", "n", "t", "e", "n", "t" >>)
KeySettings == Str(<< "s", "e", "t", "t", "i", "n", "g", "s" >>)
KeyTimestamp == Str(<< "t", "i", "m", "e", "s", "t", "a", "m", "p" >>)
KeyDiffGranularity ==
  Str(<< "d", "i", "f", "f", "G", "r", "a", "n", "u", "l", "a", "r", "i", "t", "y" >>)
KeyViewMode == Str(<< "v", "i", "e", "w", "M", "o", "d", "e" >>)
KeyIgnoreWhitespace ==
  Str(<< "i", "g", "n", "o", "r", "e", "W", "h", "i", "t", "e", "s", "p", "a", "c", "e" >>)
KeyIgnoreCase == Str(<< "i", "g", "n", "o", "r", "e", "C", "a", "s", "e" >>)

\* type DiffMode
DiffModes ==
  [ text |-> Str(<< "t", "e", "x", "t" >>),
    image |-> Str(<< "i", "m", "a", "g", "e" >>),
    file |-> Str(<< "f", "i", "l", "e" >>),
    excel |-> Str(<< "e", "x", "c", "e", "l" >>),
    pdf |-> Str(<< "p", "d", "f" >>),
    folder |-> Str(<< "f", "o", "l", "d", "e", "r" >>) ]

ModeNames == DOMAIN DiffModes

\* interface SharedDiffData, as the object literal of shareComparison builds it
SharedDiffData(mode, left, right, settings, timestamp) ==
  JObj(<< Prop(KeyMode, JStr(mode)),
          Prop(KeyLeftContent, JStr(left)),
          Prop(KeyRightContent, JStr(right)),
          Prop(KeySettings, settings),
          Prop(KeyTimestamp, JNum(timestamp)) >>)

IsSharedDiffData(x) ==
  /\ x.t = "object"
  /\ Get(x, KeyMode).t = "string"
  /\ \E m \in ModeNames : DiffModes[m] = Get(x, KeyMode).s
  /\ Get(x, KeyLeftContent).t = "string"
  /\ Get(x, KeyRightContent).t = "string"
  /\ Get(x, KeySettings).t = "object"
  /\ Get(x, KeyTimestamp).t = "number"

\* compressData
CompressData(d) ==
  LET encoded(e, b) == IF e.ok /\ b.ok THEN b.v ELSE d
      escaped(e) == encoded(e, Btoa(e.v))
  IN  escaped(EncodeURIComponent(d))

\* decompressData
DecompressData(d) ==
  LET unescaped(a, u) == IF a.ok /\ u.ok THEN u.v ELSE d
      decoded(a) == unescaped(a, DecodeURIComponent(a.v))
  IN  decoded(Atob(d))

EmptyStorage == [k \in {} |-> << >>]
\* Storage.setItem
SetItem(storage, key, value) ==
  [k \in (DOMAIN storage) \cup {key} |-> IF k = key THEN value ELSE storage[k]]
\* Storage.getItem, with null as [found |-> FALSE]
GetItem(storage, key) ==
  IF key \in DOMAIN storage THEN [found |-> TRUE, v |-> storage[key]]
  ELSE [found |-> FALSE, v |-> << >>]

ShareIdOf(nowValue, random) ==
  DiffKeyPrefix \o NumToStr(nowValue) \o << CharCode["_"] >> \o random

\* generateShareableURL with the limit itself still shared inline (<= 1000).
GenerateShareableURLInclusive(d, nowValue, random, local, session) ==
  LET link(jsonData, shareId) ==
        IF Len(jsonData) <= ShareInlineLimit
        THEN [ url |-> BaseUrl \o << HashChar >> \o SharePrefix \o CompressData(jsonData),
               localStorage |-> local,
               sessionStorage |-> session ]
        ELSE [ url |-> BaseUrl \o << HashChar >> \o RefPrefix \o shareId,
               localStorage |-> SetItem(local, shareId, jsonData),
               sessionStorage |-> SetItem(session, SessionKeyPrefix \o shareId, jsonData) ]
  IN  link(JSONStringify(d), ShareIdOf(nowValue, random))

\* generateShareableURL(data): the URL returned and the storages it leaves.
\* random is Math.random().toString(36).substr(2, 9).
GenerateShareableURL(d, nowValue, random, local, session) ==
  LET link(jsonData, shareId) ==
        IF Len(jsonData) < ShareInlineLimit
        THEN [ url |-> BaseUrl \o << HashChar >> \o SharePrefix \o CompressData(jsonData),
               localStorage |-> local,
               sessionStorage |-> session ]
        ELSE [ url |-> BaseUrl \o << HashChar >> \o RefPrefix \o shareId,
               localStorage |-> SetItem(local, shareId, jsonData),
               sessionStorage |-> SetItem(session, SessionKeyPrefix \o shareId, jsonData) ]
  IN  link(JSONStringify(d), ShareIdOf(nowValue, random))

\* parseSharedURL(), had it had no fallback to sessionStorage
ParseSharedURLLocalOnly(hashValue, local, session) ==
  LET returned(p) == IF p.ok THEN p.v ELSE JNull
      stored(jsonData) ==
        IF jsonData.found /\ Len(jsonData.v) > 0 THEN returned(JSONParse(jsonData.v))
        ELSE JNull
      byRef(shareId) == stored(GetItem(local, shareId))
      inline(compressed) == returned(JSONParse(DecompressData(compressed)))
      dispatch(h) ==
        IF StartsWith(h, SharePrefix) THEN inline(Substring(h, 6))
        ELSE IF StartsWith(h, RefPrefix) THEN byRef(Substring(h, 4))
        ELSE JNull
  IN  dispatch(Substring(hashValue, 1))

\* parseSharedURL(): the value returned (JNull for null). Every exception is
\* caught inside the function, so the call itself never throws.
ParseSharedURL(hashValue, local, session) ==
  LET returned(p) == IF p.ok THEN p.v ELSE JNull
      stored(jsonData) ==
        IF jsonData.found /\ Len(jsonData.v) > 0 THEN returned(JSONParse(jsonData.v))
        ELSE JNull
      lookup(fromLocal, fromSession) ==
        stored(IF fromLocal.found /\ Len(fromLocal.v) > 0 THEN fromLocal ELSE fromSession)
      byRef(shareId) ==
        lookup(GetItem(local, shareId), GetItem(session, SessionKeyPrefix \o shareId))
      inline(compressed) == returned(JSONParse(DecompressData(compressed)))
      dispatch(h) ==
        IF StartsWith(h, SharePrefix) THEN inline(Substring(h, 6))
        ELSE IF StartsWith(h, RefPrefix) THEN byRef(Substring(h, 4))
        ELSE JNull
  IN  dispatch(Substring(hashValue, 1))

\* One pass of cleanupOldShares over one storage, for the keys with the prefix.
SweepStorage(storage, prefix, nowValue) ==
  LET old(ts) ==
        /\ Truthy(ts)
        /\ ts.t \in {"number", "boolean"}
        /\ nowValue - (IF ts.t = "number" THEN ts.n ELSE 1) > MaxAge
      removed(p) == ~p.ok \/ p.v.t \in {"null"} \/ old(Get(p.v, KeyTimestamp))
      expired(key) ==
        removed(JSONParse(IF Len(storage[key]) > 0 THEN storage[key]
                          ELSE Str(<< "{", "}" >>)))
      sweep(kept) == [key \in kept |-> storage[key]]
  IN  sweep({key \in DOMAIN storage : ~(StartsWith(key, prefix) /\ expired(key))})

\* cleanupOldShares(): the two storages after the sweep
CleanupOldShares(local, session, nowValue) ==
  [ localStorage |-> SweepStorage(local, DiffKeyPrefix, nowValue),
    sessionStorage |-> SweepStorage(session, SessionKeyPrefix \o DiffKeyPrefix, nowValue) ]

\* The fragment of a URL, as window.location.hash gives it.
FragmentOf(url) ==
  LET from(at) ==
        IF at = {} THEN << >>
        ELSE SubSeq(url, CHOOSE i \in at : \A j \in at : i <= j, Len(url))
  IN  from({i \in 1..Len(url) : url[i] = HashChar})

(***************************************************************************)
(* The components before the page is loaded: every useState at its initial *)
(* value, no tab rendered.                                                 *)
(***************************************************************************)

\* type DiffGranularity = 'lines' | 'words' | 'chars'
Lines == Str(<< "l", "i", "n", "e", "s" >>)
Words == Str(<< "w", "o", "r", "d", "s" >>)
Chars == Str(<< "c", "h", "a", "r", "s" >>)
\* type ViewMode = 'side-by-side' | 'unified'
SideBySide == Str(<< "s", "i", "d", "e", "-", "b", "y", "-", "s", "i", "d", "e" >>)
Unified == Str(<< "u", "n", "i", "f", "i", "e", "d" >>)

\* DiffResult | null: present = FALSE stands for null.
NoResult ==
  [present |-> FALSE, added |-> 0, removed |-> 0, modified |-> 0, unchanged |-> 0,
   total |-> 0]

NoDeps == << >>
Overlay == Str(<< "o", "v", "e", "r", "l", "a", "y" >>)
Difference == Str(<< "d", "i", "f", "f", "e", "r", "e", "n", "c", "e" >>)
White == << 255, 255, 255 >>
Black == << 0, 0, 0 >>
NoImage == [present |-> FALSE, width |-> 0, height |-> 0, colour |-> White, decodable |-> FALSE]
NoCalculation == [running |-> FALSE, img1 |-> NoImage, img2 |-> NoImage]

PageClosed ==
  /\ page = "closed"
  /\ activeTab = DiffModes.text
  /\ leftContent = << >>
  /\ rightContent = << >>
  /\ diffSettings = JObj(<< >>)
  /\ diffResult = NoResult
  /\ isProcessing = FALSE
  /\ lastToast = ""
  /\ edits = 0

TextTabUnmounted ==
  /\ tabMounted = FALSE
  /\ leftText = << >>
  /\ rightText = << >>
  /\ diffGranularity = Lines
  /\ viewMode = SideBySide
  /\ ignoreWhitespace = FALSE
  /\ ignoreCase = FALSE
  /\ syncDeps = NoDeps
  /\ notifyDeps = NoDeps

Binary == Str(<< "b", "i", "n", "a", "r", "y" >>)
TextMode == Str(<< "t", "e", "x", "t" >>)
Metadata == Str(<< "m", "e", "t", "a", "d", "a", "t", "a" >>)

\* A FileInfo; content is what the FileReader gave: kind "string"
\* (readAsText) or "buffer" (readAsArrayBuffer), its units (UTF-16 code units
\* or bytes) followed by rest more units of value 0.
NoContent == [kind |-> "none", units |-> << >>, rest |-> 0]
NoFile ==
  [present |-> FALSE, name |-> << >>, size |-> 0, type |-> << >>,
   content |-> NoContent, lastModified |-> 0]

NothingSelected == [left |-> NoFile, right |-> NoFile]

FileTabUnmounted ==
  /\ leftFile = NoFile
  /\ rightFile = NoFile
  /\ comparisonMode = Binary
  /\ pendingReads = {}
  /\ lastSelected = NothingSelected

ImageTabUnmounted ==
  /\ leftImage = NoImage
  /\ rightImage = NoImage
  /\ imageViewMode = SideBySide
  /\ calculation = NoCalculation

(***************************************************************************)
(* The sharing scenario: a SharedDiffData is encoded, the link is opened   *)
(* (in the same tab, in a new tab, or by its recipient in another browser) *)
(* and parseSharedURL decodes what window.location.hash then holds.        *)
(***************************************************************************)

MaxContentLen == 2
MaxFragLen == 3

StringsUpTo(alphabet, n) == UNION {[1..k -> alphabet] : k \in 0..n}

StartTime == 2 * MaxAge
LateTime == StartTime + MaxAge + 1

\* Content characters: a letter, the two characters JSON escapes with a
\* backslash, a line feed, a non-ASCII letter.
ContentAlphabet == {CharCode["a"], QuoteChar, BackslashChar, 10, 233}

SettingsChoices ==
  { JObj(<< >>),
    JObj(<< Prop(KeyIgnoreCase, JBool(TRUE)) >>),
    JObj(<< Prop(KeyDiffGranularity, JStr(Words)),
            Prop(KeyViewMode, JStr(Unified)),
            Prop(KeyIgnoreWhitespace, JBool(TRUE)),
            Prop(KeyIgnoreCase, JBool(FALSE)) >>) }

\* The length of the shortest serialization, and content that brings it
\* exactly to the limit and one unit below it.
BaseJsonLength ==
  Len(JSONStringify(SharedDiffData(DiffModes.pdf, << >>, << >>, JObj(<< >>), StartTime)))
LongContents ==
  { Repeat(Str(<< "x" >>), ShareInlineLimit - BaseJsonLength - 1),
    Repeat(Str(<< "x" >>), ShareInlineLimit - BaseJsonLength) }

\* The states shared: every short content under every choice of settings,
\* every mode, and the long contents that straddle the limit.
CodecInputs ==
  { SharedDiffData(DiffModes.text, l, r, st, StartTime) :
      l \in StringsUpTo(ContentAlphabet, MaxContentLen),
      r \in {<< >>, Str(<< "b" >>)},
      st \in SettingsChoices }
  \cup { SharedDiffData(DiffModes[m], Str(<< "a" >>), << >>, JObj(<< >>), StartTime) :
           m \in ModeNames }
  \cup { SharedDiffData(DiffModes.pdf, l, << >>, JObj(<< >>), ts) :
           l \in LongContents, ts \in {StartTime, StartTime - MaxAge - 1} }

RandomSuffixes == {Str(<< "k", "3" >>), Str(<< "z", "9" >>)}

\* Fragments typed or pasted by hand: a discriminator and a short payload.
FragAlphabet == {CharCode[c] : c \in {"1", "[", "]", "M", "Q", "="}}
TypedHashes ==
  { << HashChar >> \o prefix \o payload :
      prefix \in {SharePrefix, RefPrefix, << >>},
      payload \in StringsUpTo(FragAlphabet, MaxFragLen) }

NotParsed == [called |-> FALSE, value |-> JUndefined]

CodecInit ==
  /\ now = StartTime
  /\ hash = << >>
  /\ localStorage = EmptyStorage
  /\ sessionStorage = EmptyStorage
  /\ shareUrl = << >>
  /\ parsed = NotParsed
  /\ phase = "idle"
  /\ \/ data \in CodecInputs /\ typed = << >>
     \/ data = JNull /\ typed \in TypedHashes
  /\ PageClosed
  /\ TextTabUnmounted
  /\ ImageTabUnmounted
  /\ FileTabUnmounted

\* shareComparison's call of generateShareableURL
CallGenerateShareableURL ==
  /\ phase = "idle"
  /\ data # JNull
  /\ \E random \in RandomSuffixes :
       LET returns(r) ==
             /\ shareUrl' = r.url
             /\ localStorage' = r.localStorage
             /\ sessionStorage' = r.sessionStorage
       IN  returns(GenerateShareableURL(data, now, random, localStorage, sessionStorage))
  /\ phase' = "shared"
  /\ UNCHANGED << now, hash, data, typed, parsed >>
  /\ UNCHANGED << appVars, tabVars, imageVars, fileVars >>

\* The link is opened: in the tab that made it, in that tab after the
\* localStorage of the site was cleared, in a new tab of the same browser (a
\* fresh sessionStorage), or in another browser (fresh storages).
OpenLink(where) ==
  /\ phase = "shared"
  /\ hash' = FragmentOf(shareUrl)
  /\ localStorage' = IF where \in {"other browser", "same tab, site data cleared"}
                     THEN EmptyStorage ELSE localStorage
  /\ sessionStorage' = IF where \in {"same tab", "same tab, site data cleared"}
                       THEN sessionStorage ELSE EmptyStorage
  /\ phase' = "opened"
  /\ UNCHANGED << now, shareUrl, data, typed, parsed >>
  /\ UNCHANGED << appVars, tabVars, imageVars, fileVars >>

\* A page is opened with a fragment that generateShareableURL did not make.
OpenTyped ==
  /\ phase = "idle"
  /\ data = JNull
  /\ hash' = typed
  /\ phase' = "opened"
  /\ UNCHANGED << now, localStorage, sessionStorage, shareUrl, data, typed, parsed >>
  /\ UNCHANGED << appVars, tabVars, imageVars, fileVars >>

CallParseSharedURL ==
  /\ phase = "opened"
  /\ parsed' = [called |-> TRUE, value |-> ParseSharedURL(hash, localStorage, sessionStorage)]
  /\ phase' = "parsed"
  /\ UNCHANGED << now, hash, localStorage, sessionStorage, shareUrl, data, typed >>
  /\ UNCHANGED << appVars, tabVars, imageVars, fileVars >>

\* More than the retention window goes by before the link is opened.
Tick ==
  /\ phase = "shared"
  /\ now = StartTime
  /\ now' = LateTime
  /\ UNCHANGED << hash, localStorage, sessionStorage, shareUrl, data, typed, parsed, phase >>
  /\ UNCHANGED << appVars, tabVars, imageVars, fileVars >>

\* Another page of the application is loaded first: its mount effect sweeps.
CallCleanupOldShares ==
  /\ phase = "shared"
  /\ LET swept(r) ==
           /\ localStorage' = r.localStorage
           /\ sessionStorage' = r.sessionStorage
     IN  swept(CleanupOldShares(localStorage, sessionStorage, now))
  /\ UNCHANGED << now, hash, shareUrl, data, typed, parsed, phase >>
  /\ UNCHANGED << appVars, tabVars, imageVars, fileVars >>

CodecNext ==
  \/ CallGenerateShareableURL
  \/ \E where \in {"same tab", "same tab, site data cleared", "new tab",
                   "other browser"} : OpenLink(where)
  \/ OpenTyped
  \/ CallParseSharedURL
  \/ Tick
  \/ CallCleanupOldShares

vars == << codecVars, appVars, tabVars, imageVars, fileVars >>

SpecCodec == CodecInit /\ [][CodecNext]_vars

\* The payload of a "#share=" fragment and the share id of a "#ref=" one.
TokenOf(url) == Substring(FragmentOf(url), 1 + Len(SharePrefix))
RefOf(url) == Substring(FragmentOf(url), 1 + Len(RefPrefix))

IsShareLink(url) == StartsWith(FragmentOf(url), << HashChar >> \o SharePrefix)
IsRefLink(url) == StartsWith(FragmentOf(url), << HashChar >> \o RefPrefix)

\* C1 (as the specification states it): whenever parseSharedURL runs on the
\* fragment of the URL that generateShareableURL returned for a SharedState,
\* it returns a value equal to that SharedState.
C1_RoundTrip ==
  (parsed.called /\ data # JNull /\ hash = FragmentOf(shareUrl)) => parsed.value = data

\* C2 (as the specification states it): parseSharedURL on a fragment that no
\* share produced (bad base64, malformed JSON, unknown ref id, no
\* discriminator) returns null.
C2_MalformedGivesNull ==
  (parsed.called /\ data = JNull) => parsed.value = JNull

OrElse(v, d) == IF Truthy(v) THEN v ELSE d

\* The settings object the notify effect hands to onContentChange.
TabSettings(granularity, view, whitespace, case) ==
  JObj(<< Prop(KeyDiffGranularity, JStr(granularity)),
          Prop(KeyViewMode, JStr(view)),
          Prop(KeyIgnoreWhitespace, JBool(whitespace)),
          Prop(KeyIgnoreCase, JBool(case)) >>)

\* [initialLeftContent, initialRightContent]
SyncDepsNow == << leftContent, rightContent >>
\* [leftText, rightText, diffGranularity, viewMode, ignoreWhitespace, ignoreCase]
NotifyDepsNow ==
  << leftText, rightText, diffGranularity, viewMode, ignoreWhitespace, ignoreCase >>

SyncRuns == tabMounted /\ syncDeps # SyncDepsNow
NotifyRuns == tabMounted /\ notifyDeps # NotifyDepsNow
EffectsPending == SyncRuns \/ NotifyRuns

\* TextDiffTab mounts: every useState takes its initial value from the props.
\* (Settings of a SharedDiffData hold booleans in the two ignore flags.)
TextDiffTabMount(initialLeftContent, initialRightContent, initialSettings) ==
  /\ tabMounted' = TRUE
  /\ leftText' = initialLeftContent
  /\ rightText' = initialRightContent
  /\ diffGranularity' = OrElse(Get(initialSettings, KeyDiffGranularity), JStr(Lines)).s
  /\ viewMode' = OrElse(Get(initialSettings, KeyViewMode), JStr(SideBySide)).s
  /\ ignoreWhitespace' = Truthy(OrElse(Get(initialSettings, KeyIgnoreWhitespace), JBool(FALSE)))
  /\ ignoreCase' = Truthy(OrElse(Get(initialSettings, KeyIgnoreCase), JBool(FALSE)))
  /\ syncDeps' = NoDeps
  /\ notifyDeps' = NoDeps

\* TextDiffTab unmounts: its state is discarded.
TextDiffTabUnmount ==
  /\ tabMounted' = FALSE
  /\ leftText' = << >>
  /\ rightText' = << >>
  /\ diffGranularity' = Lines
  /\ viewMode' = SideBySide
  /\ ignoreWhitespace' = FALSE
  /\ ignoreCase' = FALSE
  /\ syncDeps' = NoDeps
  /\ notifyDeps' = NoDeps

\* The first render of the page: DiffChecker's useState initial values, and
\* TextDiffTab mounted with them as its props.
InitialRender ==
  /\ page = "loading"
  /\ activeTab = DiffModes.text
  /\ leftContent = << >>
  /\ rightContent = << >>
  /\ diffSettings = JObj(<< >>)
  /\ diffResult = NoResult
  /\ isProcessing = FALSE
  /\ lastToast = ""
  /\ edits = 0
  /\ tabMounted = TRUE
  /\ leftText = << >>
  /\ rightText = << >>
  /\ diffGranularity = Lines
  /\ viewMode = SideBySide
  /\ ignoreWhitespace = FALSE
  /\ ignoreCase = FALSE
  /\ syncDeps = NoDeps
  /\ notifyDeps = NoDeps

\* The passive effects of one commit and the render of the updates they
\* queue. TextDiffTab's effects run first: the content-sync effect queues
\* setLeftText/setRightText with the props, the notify effect calls
\* onContentChange (handleContentChange) with the tab's state. sharedData is
\* what DiffChecker's mount effect parsed (null when that effect does not run
\* in this commit); its updates are queued last and so win.
PassiveEffects(sharedData) ==
  /\ activeTab' = IF Truthy(sharedData) THEN Get(sharedData, KeyMode).s ELSE activeTab
  /\ leftContent' = IF Truthy(sharedData) THEN Get(sharedData, KeyLeftContent).s
                    ELSE IF NotifyRuns THEN leftText ELSE leftContent
  /\ rightContent' = IF Truthy(sharedData) THEN Get(sharedData, KeyRightContent).s
                     ELSE IF NotifyRuns THEN rightText ELSE rightContent
  /\ diffSettings' = IF Truthy(sharedData) THEN Get(sharedData, KeySettings)
                     ELSE IF NotifyRuns
                          THEN TabSettings(diffGranularity, viewMode, ignoreWhitespace,
                                           ignoreCase)
                     ELSE diffSettings
  /\ lastToast' = IF Truthy(sharedData) THEN "Shared comparison loaded" ELSE lastToast
  /\ IF activeTab' = DiffModes.text
     THEN /\ tabMounted' = TRUE
          /\ leftText' = IF SyncRuns THEN leftContent ELSE leftText
          /\ rightText' = IF SyncRuns THEN rightContent ELSE rightText
          /\ syncDeps' = SyncDepsNow
          /\ notifyDeps' = NotifyDepsNow
          /\ UNCHANGED << diffGranularity, viewMode, ignoreWhitespace, ignoreCase >>
     ELSE TextDiffTabUnmount

\* The effects of the first commit: TextDiffTab's two effects, then
\* DiffChecker's mount effect (parseSharedURL, the setters, cleanupOldShares).
MountEffects ==
  /\ page = "loading"
  /\ LET mounted(sharedData, swept) ==
           /\ PassiveEffects(sharedData)
           /\ parsed' = [called |-> TRUE, value |-> sharedData]
           /\ localStorage' = swept.localStorage
           /\ sessionStorage' = swept.sessionStorage
     IN  mounted(ParseSharedURL(hash, localStorage, sessionStorage),
                 CleanupOldShares(localStorage, sessionStorage, now))
  /\ page' = "mounted"
  /\ UNCHANGED << now, hash, shareUrl, data, typed, phase >>
  /\ UNCHANGED << diffResult, isProcessing, edits, imageVars, fileVars >>

\* The effects of a later commit.
RunEffects ==
  /\ page = "mounted"
  /\ EffectsPending
  /\ PassiveEffects(JNull)
  /\ UNCHANGED << codecVars, page, diffResult, isProcessing, edits, imageVars, fileVars >>

MaxEdits == 1
MaxLoads == 1

\* The user can act: the page is mounted and no effect is pending.
Interactive == page = "mounted" /\ ~EffectsPending /\ edits < MaxEdits

\* What the user types into an editor.
TypedTexts == {<< >>, Str(<< "a" >>)}

\* <Textarea value={leftText} onChange={(e) => setLeftText(e.target.value)} />
SetLeftText(text) ==
  /\ Interactive /\ tabMounted
  /\ text # leftText
  /\ leftText' = text
  /\ edits' = edits + 1
  /\ UNCHANGED << codecVars, imageVars, fileVars >>
  /\ UNCHANGED << page, activeTab, leftContent, rightContent, diffSettings, diffResult,
                  isProcessing, lastToast >>
  /\ UNCHANGED << tabMounted, rightText, diffGranularity, viewMode, ignoreWhitespace,
                  ignoreCase, syncDeps, notifyDeps >>

SetRightText(text) ==
  /\ Interactive /\ tabMounted
  /\ text # rightText
  /\ rightText' = text
  /\ edits' = edits + 1
  /\ UNCHANGED << codecVars, imageVars, fileVars >>
  /\ UNCHANGED << page, activeTab, leftContent, rightContent, diffSettings, diffResult,
                  isProcessing, lastToast >>
  /\ UNCHANGED << tabMounted, leftText, diffGranularity, viewMode, ignoreWhitespace,
                  ignoreCase, syncDeps, notifyDeps >>

\* Clear All, had it dropped the result as well
ClearAllAndResult ==
  /\ Interactive /\ tabMounted
  /\ leftText' = << >>
  /\ rightText' = << >>
  /\ edits' = edits + 1
  /\ diffResult' = NoResult
  /\ UNCHANGED << codecVars, imageVars, fileVars >>
  /\ UNCHANGED << page, activeTab, leftContent, rightContent, diffSettings,
                  isProcessing, lastToast >>
  /\ UNCHANGED << tabMounted, diffGranularity, viewMode, ignoreWhitespace,
                  ignoreCase, syncDeps, notifyDeps >>

\* The "Clear All" button
ClearAll ==
  /\ Interactive /\ tabMounted
  /\ leftText' = << >>
  /\ rightText' = << >>
  /\ edits' = edits + 1
  /\ UNCHANGED << codecVars, imageVars, fileVars >>
  /\ UNCHANGED << page, activeTab, leftContent, rightContent, diffSettings, diffResult,
                  isProcessing, lastToast >>
  /\ UNCHANGED << tabMounted, diffGranularity, viewMode, ignoreWhitespace,
                  ignoreCase, syncDeps, notifyDeps >>

\* <select value={diffGranularity} onChange=...>
SetDiffGranularity(granularity) ==
  /\ Interactive /\ tabMounted
  /\ granularity # diffGranularity
  /\ diffGranularity' = granularity
  /\ edits' = edits + 1
  /\ UNCHANGED << codecVars, imageVars, fileVars >>
  /\ UNCHANGED << page, activeTab, leftContent, rightContent, diffSettings, diffResult,
                  isProcessing, lastToast >>
  /\ UNCHANGED << tabMounted, leftText, rightText, viewMode, ignoreWhitespace,
                  ignoreCase, syncDeps, notifyDeps >>

\* <select value={viewMode} onChange=...>
SetViewMode(view) ==
  /\ Interactive /\ tabMounted
  /\ view # viewMode
  /\ viewMode' = view
  /\ edits' = edits + 1
  /\ UNCHANGED << codecVars, imageVars, fileVars >>
  /\ UNCHANGED << page, activeTab, leftContent, rightContent, diffSettings, diffResult,
                  isProcessing, lastToast >>
  /\ UNCHANGED << tabMounted, leftText, rightText, diffGranularity, ignoreWhitespace,
                  ignoreCase, syncDeps, notifyDeps >>

\* <Switch checked={ignoreWhitespace} onCheckedChange={setIgnoreWhitespace} />
SetIgnoreWhitespace ==
  /\ Interactive /\ tabMounted
  /\ ignoreWhitespace' = ~ignoreWhitespace
  /\ edits' = edits + 1
  /\ UNCHANGED << codecVars, imageVars, fileVars >>
  /\ UNCHANGED << page, activeTab, leftContent, rightContent, diffSettings, diffResult,
                  isProcessing, lastToast >>
  /\ UNCHANGED << tabMounted, leftText, rightText, diffGranularity, viewMode,
                  ignoreCase, syncDeps, notifyDeps >>

\* <Switch checked={ignoreCase} onCheckedChange={setIgnoreCase} />
SetIgnoreCase ==
  /\ Interactive /\ tabMounted
  /\ ignoreCase' = ~ignoreCase
  /\ edits' = edits + 1
  /\ UNCHANGED << codecVars, imageVars, fileVars >>
  /\ UNCHANGED << page, activeTab, leftContent, rightContent, diffSettings, diffResult,
                  isProcessing, lastToast >>
  /\ UNCHANGED << tabMounted, leftText, rightText, diffGranularity, viewMode,
                  ignoreWhitespace, syncDeps, notifyDeps >>

\* <TabsContent> renders the active tab only: the tab that is left is
\* unmounted and its useState values are lost; the one entered starts from
\* its initial values (ImageDiffTab.tsx:23-27, 417-419).
ImageDiffTabRemount ==
  /\ leftImage' = NoImage
  /\ rightImage' = NoImage
  /\ imageViewMode' = SideBySide

FileDiffTabRemount ==
  /\ leftFile' = NoFile
  /\ rightFile' = NoFile
  /\ comparisonMode' = Binary
  /\ pendingReads' = {}
  /\ lastSelected' = NothingSelected

\* <Tabs value={activeTab} onValueChange={(value) => setActiveTab(value)}>
SelectTab(mode) ==
  /\ Interactive
  /\ mode # activeTab
  /\ activeTab' = mode
  /\ edits' = edits + 1
  /\ IF mode = DiffModes.text
     THEN TextDiffTabMount(leftContent, rightContent, diffSettings)
     ELSE TextDiffTabUnmount
  /\ ImageDiffTabRemount
  /\ FileDiffTabRemount
  /\ UNCHANGED << codecVars, calculation >>
  /\ UNCHANGED << page, leftContent, rightContent, diffSettings, diffResult,
                  isProcessing, lastToast >>

\* handleShare, with shareComparison and generateShareableURL
HandleShare ==
  /\ page = "mounted" /\ ~EffectsPending
  /\ IF Len(leftContent) = 0 /\ Len(rightContent) = 0
     THEN /\ lastToast' = "Nothing to share"
          /\ UNCHANGED << shareUrl, data, localStorage, sessionStorage >>
     ELSE \E random \in RandomSuffixes :
            LET shared(d, r) ==
                  /\ data' = d
                  /\ shareUrl' = r.url
                  /\ localStorage' = r.localStorage
                  /\ sessionStorage' = r.sessionStorage
                made(d) ==
                  shared(d, GenerateShareableURL(d, now, random, localStorage,
                                                 sessionStorage))
            IN  /\ made(SharedDiffData(activeTab, leftContent, rightContent,
                                       diffSettings, now))
                /\ lastToast' = "Link copied to clipboard!"
  /\ UNCHANGED << now, hash, typed, parsed, phase >>
  /\ UNCHANGED << page, activeTab, leftContent, rightContent, diffSettings, diffResult,
                  isProcessing, edits >>
  /\ UNCHANGED << tabVars, imageVars, fileVars >>

\* Someone opens the copied link, later: in a new tab of the sharer's browser
\* or in another browser. The page renders for the first time.
OpenSharedLink(where) ==
  /\ page = "mounted" /\ ~EffectsPending
  /\ Len(shareUrl) > 0
  /\ now - StartTime < MaxLoads
  /\ now' = now + 1
  /\ hash' = FragmentOf(shareUrl)
  /\ localStorage' = IF where = "other browser" THEN EmptyStorage ELSE localStorage
  /\ sessionStorage' = EmptyStorage
  /\ parsed' = NotParsed
  /\ page' = "loading"
  /\ activeTab' = DiffModes.text
  /\ leftContent' = << >>
  /\ rightContent' = << >>
  /\ diffSettings' = JObj(<< >>)
  /\ diffResult' = NoResult
  /\ isProcessing' = FALSE
  /\ lastToast' = ""
  /\ edits' = 0
  /\ TextDiffTabMount(<< >>, << >>, JObj(<< >>))
  /\ ImageDiffTabRemount
  /\ FileDiffTabRemount
  /\ calculation' = NoCalculation
  /\ UNCHANGED << shareUrl, data, typed, phase >>

\* The links the page is first opened with: none, or the link of a shared
\* comparison.
DefaultSettings == TabSettings(Lines, SideBySide, FALSE, FALSE)

AppShares ==
  { SharedDiffData(mode, Str(<< "a" >>), right, settings, StartTime - 1) :
      mode \in {DiffModes.text, DiffModes.image},
      right \in {Str(<< "b" >>)},
      settings \in SettingsChoices \cup {DefaultSettings} }

AppHashes ==
  {<< >>} \cup
  { FragmentOf(GenerateShareableURL(d, StartTime - 1, Str(<< "k", "3" >>),
                                    EmptyStorage, EmptyStorage).url) : d \in AppShares }

AppInit ==
  /\ now = StartTime
  /\ hash \in AppHashes
  /\ localStorage = EmptyStorage
  /\ sessionStorage = EmptyStorage
  /\ shareUrl = << >>
  /\ data = JNull
  /\ typed = << >>
  /\ parsed = NotParsed
  /\ phase = "idle"
  /\ InitialRender
  /\ ImageTabUnmounted
  /\ FileTabUnmounted

AppNext ==
  \/ MountEffects
  \/ RunEffects
  \/ \E text \in TypedTexts : SetLeftText(text)
  \/ \E text \in TypedTexts : SetRightText(text)
  \/ ClearAll
  \/ \E granularity \in {Lines, Words, Chars} : SetDiffGranularity(granularity)
  \/ \E view \in {SideBySide, Unified} : SetViewMode(view)
  \/ SetIgnoreWhitespace
  \/ SetIgnoreCase
  \/ \E m \in ModeNames : SelectTab(DiffModes[m])
  \/ HandleShare
  \/ \E where \in {"new tab", "other browser"} : OpenSharedLink(where)

SpecApp == AppInit /\ [][AppNext]_vars

\* The page has settled after loading a shared comparison, and the user has
\* not touched it.
LoadedShared ==
  /\ page = "mounted"
  /\ ~EffectsPending
  /\ edits = 0
  /\ parsed.called
  /\ IsSharedDiffData(parsed.value)

\* The four diff settings an object stands for, each absent one at the
\* default the text tab gives it.
EffectiveSettings(settings) ==
  << OrElse(Get(settings, KeyDiffGranularity), JStr(Lines)).s,
     OrElse(Get(settings, KeyViewMode), JStr(SideBySide)).s,
     Truthy(Get(settings, KeyIgnoreWhitespace)),
     Truthy(Get(settings, KeyIgnoreCase)) >>

\* C4 (as the specification states it): once the effects have settled after
\* a load with a valid share token, DiffChecker's active mode, left content,
\* right content and diff settings equal the shared ones, and so do the
\* contents and the settings the text tab uses when it is the one shown.
C4_ReconstructedOnLoad ==
  LoadedShared =>
    /\ activeTab = Get(parsed.value, KeyMode).s
    /\ leftContent = Get(parsed.value, KeyLeftContent).s
    /\ rightContent = Get(parsed.value, KeyRightContent).s
    /\ EffectiveSettings(diffSettings) = EffectiveSettings(Get(parsed.value, KeySettings))
    /\ tabMounted =>
         /\ leftText = Get(parsed.value, KeyLeftContent).s
         /\ rightText = Get(parsed.value, KeyRightContent).s
         /\ << diffGranularity, viewMode, ignoreWhitespace, ignoreCase >> =
              EffectiveSettings(Get(parsed.value, KeySettings))

(***************************************************************************)
(* The package "diff" (diffLines, diffWords, diffChars), as TextDiffTab    *)
(* calls it: the tokens of each granularity and the edit script of the     *)
(* package's O(ND) search. A change object is [count, added, removed,      *)
(* value]; positions are 0-based as in the package, -1 before the first    *)
(* token.                                                                  *)
(***************************************************************************)

\* The white space of /\s/ and of String.prototype.trim
IsJsWhitespace(u) ==
  \/ u \in {9, 10, 11, 12, 13, 32, 160, 5760, 8232, 8233, 8239, 8287, 12288, 65279}
  \/ (u >= 8192 /\ u <= 8202)

IsWordChar(u) ==
  \/ (u >= CharCode["a"] /\ u <= CharCode["z"])
  \/ (u >= CharCode["A"] /\ u <= CharCode["Z"])
  \/ IsDigit(u)
  \/ u = CharCode["_"]

\* The pieces of s that end at the indices in ends (increasing), with the
\* rest after the last end, no piece empty.
SplitAfter(s, ends) ==
  LET next(cuts, c) == CHOOSE d \in cuts : d > c /\ \A x \in cuts : x > c => d <= x
      nth(starts, k) == CHOOSE c \in starts : Cardinality({x \in starts : x < c}) = k - 1
      piece(cuts, c) == SubSeq(s, c + 1, next(cuts, c))
      pieces(cuts, starts) ==
        [k \in 1..Cardinality(starts) |-> piece(cuts, nth(starts, k))]
  IN  pieces({0} \cup ends \cup {Len(s)}, ({0} \cup ends) \ {Len(s)})

\* diffLines: each line with its line terminator
LineTokens(s) == SplitAfter(s, {i \in 1..Len(s) : s[i] = 10})

\* diffChars: each code unit
CharTokens(s) == [i \in 1..Len(s) |-> << s[i] >>]

\* diffWords: runs of word characters, runs of white space other than line
\* terminators, and every other character on its own
WordClass(u) ==
  IF IsWordChar(u) THEN "word"
  ELSE IF IsJsWhitespace(u) /\ u \notin {10, 13} THEN "space"
  ELSE "single"

WordTokens(s) ==
  SplitAfter(s, {i \in 1..(Len(s) - 1) :
                   \/ WordClass(s[i]) = "single"
                   \/ WordClass(s[i]) # WordClass(s[i + 1])})

HasNoInk(token) == \A i \in 1..Len(token) : IsJsWhitespace(token[i])

\* The comparator of two tokens: diffWords takes any two tokens of white
\* space for equal.
TokenEquals(left, right, ignoreSpace) ==
  left = right \/ (ignoreSpace /\ HasNoInk(left) /\ HasNoInk(right))

NoPath == [defined |-> FALSE, newPos |-> 0 - 1, components |-> << >>]
Path(newPos, components) == [defined |-> TRUE, newPos |-> newPos, components |-> components]

\* pushComponent: one more token added or removed, merged into the last
\* component when that has the same kind
PushComponent(components, added, removed) ==
  IF /\ Len(components) > 0
     /\ components[Len(components)].added = added
     /\ components[Len(components)].removed = removed
  THEN [components EXCEPT ![Len(components)].count = @ + 1]
  ELSE Append(components, [count |-> 1, added |-> added, removed |-> removed])

\* The number of tokens that agree from newPos + 1 and oldPos + 1 on
RECURSIVE CommonCount(_, _, _, _, _)
CommonCount(new, old, newPos, oldPos, ignoreSpace) ==
  IF /\ newPos + 1 < Len(new)
     /\ oldPos + 1 < Len(old)
     /\ TokenEquals(new[newPos + 2], old[oldPos + 2], ignoreSpace)
  THEN 1 + CommonCount(new, old, newPos + 1, oldPos + 1, ignoreSpace)
  ELSE 0

\* extractCommon: the path moved along its diagonal as far as tokens agree
ExtractCommon(path, new, old, diagonalPath, ignoreSpace) ==
  LET moved(commonCount) ==
        IF commonCount = 0 THEN path
        ELSE Path(path.newPos + commonCount,
                  Append(path.components,
                         [count |-> commonCount, added |-> FALSE, removed |-> FALSE]))
  IN  moved(CommonCount(new, old, path.newPos, path.newPos - diagonalPath, ignoreSpace))

AtEnd(path, new, old, diagonalPath) ==
  /\ path.defined
  /\ path.newPos + 1 >= Len(new)
  /\ (path.newPos - diagonalPath) + 1 >= Len(old)

\* One diagonal of execEditLength: the path that reaches diagonalPath with one
\* more edit, from the paths of the neighbouring diagonals
NextPath(bestPath, new, old, diagonalPath, ignoreSpace) ==
  LET at(d) == IF d \in DOMAIN bestPath THEN bestPath[d] ELSE NoPath
      branch(addPath, removePath) ==
        LET oldPos == (IF removePath.defined THEN removePath.newPos ELSE 0) - diagonalPath
            canAdd == addPath.defined /\ addPath.newPos + 1 < Len(new)
            canRemove == removePath.defined /\ 0 <= oldPos /\ oldPos < Len(old)
        IN  IF ~canAdd /\ ~canRemove THEN NoPath
            ELSE IF ~canAdd \/ (canRemove /\ addPath.newPos < removePath.newPos)
            THEN ExtractCommon(Path(removePath.newPos,
                                    PushComponent(removePath.components, FALSE, TRUE)),
                               new, old, diagonalPath, ignoreSpace)
            ELSE ExtractCommon(Path(addPath.newPos + 1,
                                    PushComponent(addPath.components, TRUE, FALSE)),
                               new, old, diagonalPath, ignoreSpace)
  IN  branch(at(diagonalPath - 1), at(diagonalPath + 1))

\* execEditLength, for editLength and every larger one: the components of the
\* first path, in the order of the diagonals, that reaches the end of both
\* token lists
RECURSIVE ExecEditLength(_, _, _, _, _)
ExecEditLength(bestPath, new, old, editLength, ignoreSpace) ==
  LET diagonals == {d \in (0 - editLength)..editLength : (d + editLength) % 2 = 0}
      round(paths) ==
        LET done == {d \in diagonals : AtEnd(paths[d], new, old, d)}
        IN  IF done # {}
            THEN paths[CHOOSE d \in done : \A e \in done : d <= e].components
            ELSE ExecEditLength(paths, new, old, editLength + 1, ignoreSpace)
  IN  round([d \in diagonals |-> NextPath(bestPath, new, old, d, ignoreSpace)])

\* buildValues: the text of each component, a removal moved before the
\* addition it follows
RECURSIVE BuildValues(_, _, _, _, _, _)
BuildValues(components, k, new, old, newPos, oldPos) ==
  IF k > Len(components) THEN << >>
  ELSE IF components[k].removed
  THEN << components[k] @@
            [value |-> Flatten(SubSeq(old, oldPos + 1, oldPos + components[k].count))] >>
       \o BuildValues(components, k + 1, new, old, newPos, oldPos + components[k].count)
  ELSE << components[k] @@
            [value |-> Flatten(SubSeq(new, newPos + 1, newPos + components[k].count))] >>
       \o BuildValues(components, k + 1, new, old, newPos + components[k].count,
                      IF components[k].added THEN oldPos ELSE oldPos + components[k].count)

RECURSIVE RemovalsFirst(_, _)
RemovalsFirst(parts, k) ==
  IF k > Len(parts) THEN parts
  ELSE IF k > 1 /\ parts[k].removed /\ parts[k - 1].added
  THEN RemovalsFirst([parts EXCEPT ![k - 1] = parts[k], ![k] = parts[k - 1]], k + 1)
  ELSE RemovalsFirst(parts, k + 1)

\* A last change of nothing but ignored white space is folded into the part
\* before it.
FoldTerminal(parts, ignoreSpace) ==
  IF /\ Len(parts) > 1
     /\ parts[Len(parts)].added \/ parts[Len(parts)].removed
     /\ TokenEquals(<< >>, parts[Len(parts)].value, ignoreSpace)
  THEN [k \in 1..(Len(parts) - 1) |->
          IF k = Len(parts) - 1
          THEN [parts[k] EXCEPT !.value = @ \o parts[Len(parts)].value]
          ELSE parts[k]]
  ELSE parts

\* Diff.diff on the two token lists
DiffTokens(old, new, ignoreSpace) ==
  LET finish(components) ==
        FoldTerminal(RemovalsFirst(BuildValues(components, 1, new, old, 0, 0), 1),
                     ignoreSpace)
      search(start) ==
        IF AtEnd(start, new, old, 0)
        THEN << [count |-> Len(new), added |-> FALSE, removed |-> FALSE,
                 value |-> Flatten(new)] >>
        ELSE finish(ExecEditLength([d \in {0} |-> start], new, old, 1, ignoreSpace))
  IN  search(ExtractCommon(Path(0 - 1, << >>), new, old, 0, ignoreSpace))

DiffLines(oldStr, newStr) == DiffTokens(LineTokens(oldStr), LineTokens(newStr), FALSE)
DiffWords(oldStr, newStr) == DiffTokens(WordTokens(oldStr), WordTokens(newStr), TRUE)
DiffChars(oldStr, newStr) == DiffTokens(CharTokens(oldStr), CharTokens(newStr), FALSE)

(***************************************************************************)
(* TextDiffTab.performDiff, with the callbacks DiffChecker hands it        *)
(* (handleError, handleDiffComplete, setIsProcessing).                     *)
(***************************************************************************)

\* String.prototype.trim
Trim(s) ==
  LET cut(ink) ==
        IF ink = {} THEN << >>
        ELSE SubSeq(s, CHOOSE i \in ink : \A j \in ink : i <= j,
                       CHOOSE i \in ink : \A j \in ink : i >= j)
  IN  cut({i \in 1..Len(s) : ~IsJsWhitespace(s[i])})

\* String.prototype.toLowerCase, on the letters of Basic Latin and Latin-1
ToLowerUnit(u) ==
  IF \/ (u >= CharCode["A"] /\ u <= CharCode["Z"])
     \/ (u >= 192 /\ u <= 222 /\ u # 215)
  THEN u + 32
  ELSE u

ToLowerCase(s) == [i \in 1..Len(s) |-> ToLowerUnit(s[i])]

\* s.replace(/\s+/g, ' '): every maximal run of white space becomes one space
CollapseWhitespace(s) ==
  LET nth(kept, k) == CHOOSE i \in kept : Cardinality({x \in kept : x < i}) = k - 1
      unit(i) == IF IsJsWhitespace(s[i]) THEN CharCode[" "] ELSE s[i]
      rebuilt(kept) == [k \in 1..Cardinality(kept) |-> unit(nth(kept, k))]
  IN  rebuilt({i \in 1..Len(s) :
                 ~IsJsWhitespace(s[i]) \/ i = 1 \/ ~IsJsWhitespace(s[i - 1])})

\* The guard without trim: !leftText && !rightText
NothingToCompareUntrimmed(left, right) == Len(left) = 0 /\ Len(right) = 0

\* !leftText.trim() && !rightText.trim()
NothingToCompare(left, right) == Len(Trim(left)) = 0 /\ Len(Trim(right)) = 0

ProcessedLeft(left, case, whitespace) ==
  LET folded(text) == IF case THEN ToLowerCase(text) ELSE text
      spaced(text) == IF whitespace THEN Trim(CollapseWhitespace(text)) ELSE text
  IN  spaced(folded(left))

\* The right text left as typed
ProcessedRightVerbatim(right, case, whitespace) == right

\* The right text lower-cased whatever ignoreCase says
ProcessedRightFolded(right, case, whitespace) ==
  LET spaced(text) == IF whitespace THEN Trim(CollapseWhitespace(text)) ELSE text
  IN  spaced(ToLowerCase(right))

ProcessedRight(right, case, whitespace) ==
  LET folded(text) == IF case THEN ToLowerCase(text) ELSE text
      spaced(text) == IF whitespace THEN Trim(CollapseWhitespace(text)) ELSE text
  IN  spaced(folded(right))

\* The switch on diffGranularity
DiffAt(granularity, processedLeft, processedRight) ==
  IF granularity = Words THEN DiffWords(processedLeft, processedRight)
  ELSE IF granularity = Chars THEN DiffChars(processedLeft, processedRight)
  ELSE DiffLines(processedLeft, processedRight)

\* The tally with every changed part counted as modified
DiffTallyAsModified(diff) ==
  [present |-> TRUE,
   added |-> 0,
   removed |-> 0,
   modified |-> Cardinality({k \in 1..Len(diff) : diff[k].added \/ diff[k].removed}),
   unchanged |-> Cardinality({k \in 1..Len(diff) : ~diff[k].added /\ ~diff[k].removed}),
   total |-> Len(diff)]

\* The tally, had it added up the token counts of the parts
DiffTallyOfTokens(diff) ==
  LET kept(part, tag) ==
        CASE tag = "added" -> part.added
          [] tag = "removed" -> part.removed
          [] tag = "common" -> ~part.added /\ ~part.removed
          [] OTHER -> TRUE
      tokens(tag) ==
        LET RECURSIVE sum(_)
            sum(k) == IF k = 0 THEN 0
                      ELSE sum(k - 1) + (IF kept(diff[k], tag) THEN diff[k].count ELSE 0)
        IN  sum(Len(diff))
  IN  [present |-> TRUE,
       added |-> tokens("added"),
       removed |-> tokens("removed"),
       modified |-> 0,
       unchanged |-> tokens("common"),
       total |-> tokens("all")]

\* The DiffResult of a list of change objects: the parts of each kind
DiffTally(diff) ==
  [present |-> TRUE,
   added |-> Cardinality({k \in 1..Len(diff) : diff[k].added}),
   removed |-> Cardinality({k \in 1..Len(diff) : diff[k].removed}),
   modified |-> 0,
   unchanged |-> Cardinality({k \in 1..Len(diff) : ~diff[k].added /\ ~diff[k].removed}),
   total |-> Len(diff)]

\* The Compare callback of the text tab, had its button stayed enabled while
\* isProcessing
PerformDiffWhileProcessing ==
  /\ page = "mounted"
  /\ ~EffectsPending
  /\ tabMounted
  /\ IF NothingToCompare(leftText, rightText)
     THEN /\ lastToast' = "Error"
          /\ UNCHANGED << diffResult, isProcessing >>
     ELSE /\ diffResult' = DiffTally(DiffAt(diffGranularity,
                                            ProcessedLeft(leftText, ignoreCase, ignoreWhitespace),
                                            ProcessedRight(rightText, ignoreCase, ignoreWhitespace)))
          /\ lastToast' = "Diff Analysis Complete"
          /\ isProcessing' = FALSE
  /\ UNCHANGED << page, activeTab, leftContent, rightContent, diffSettings, edits >>
  /\ UNCHANGED << codecVars, tabVars, imageVars, fileVars >>

\* The Compare callback of the text tab.
PerformDiff ==
  /\ page = "mounted"
  /\ ~EffectsPending
  /\ tabMounted
  /\ ~isProcessing
  /\ IF NothingToCompare(leftText, rightText)
     THEN /\ lastToast' = "Error"
          /\ UNCHANGED << diffResult, isProcessing >>
     ELSE /\ diffResult' = DiffTally(DiffAt(diffGranularity,
                                            ProcessedLeft(leftText, ignoreCase, ignoreWhitespace),
                                            ProcessedRight(rightText, ignoreCase, ignoreWhitespace)))
          /\ lastToast' = "Diff Analysis Complete"
          /\ isProcessing' = FALSE
  /\ UNCHANGED << page, activeTab, leftContent, rightContent, diffSettings, edits >>
  /\ UNCHANGED << codecVars, tabVars, imageVars, fileVars >>

(***************************************************************************)
(* The comparison scenario: the text tab holds two texts and its settings, *)
(* and Compare is pressed.                                                 *)
(***************************************************************************)

MaxTextLen == 2
TextAlphabet == {CharCode["a"], CharCode["A"], CharCode[" "], 10}
\* Two longer texts, for white space inside a text: "a  A" and " A\n\na "
LongerTexts ==
  {<< CharCode["a"], CharCode[" "], CharCode[" "], CharCode["A"] >>,
   << CharCode[" "], CharCode["A"], 10, 10, CharCode["a"], CharCode[" "] >>}
Texts == UNION {[1..n -> TextAlphabet] : n \in 0..MaxTextLen} \cup LongerTexts

TextInit ==
  /\ now = StartTime
  /\ hash = << >>
  /\ localStorage = EmptyStorage
  /\ sessionStorage = EmptyStorage
  /\ shareUrl = << >>
  /\ data = JNull
  /\ typed = << >>
  /\ parsed = [called |-> TRUE, value |-> JNull]
  /\ phase = "idle"
  /\ page = "mounted"
  /\ activeTab = DiffModes.text
  /\ tabMounted = TRUE
  /\ leftText \in Texts
  /\ rightText \in Texts
  /\ diffGranularity \in {Lines, Words, Chars}
  /\ viewMode = SideBySide
  /\ ignoreWhitespace \in BOOLEAN
  /\ ignoreCase \in BOOLEAN
  /\ leftContent = leftText
  /\ rightContent = rightText
  /\ diffSettings = TabSettings(diffGranularity, viewMode, ignoreWhitespace, ignoreCase)
  /\ syncDeps = SyncDepsNow
  /\ notifyDeps = NotifyDepsNow
  /\ diffResult = NoResult
  /\ isProcessing = FALSE
  /\ lastToast = ""
  /\ edits = 0
  /\ ImageTabUnmounted
  /\ FileTabUnmounted

TextNext == PerformDiff

SpecText == TextInit /\ [][TextNext]_vars

\* Compare has been pressed.
Compared == lastToast # ""

IsBlank(text) == \A i \in 1..Len(text) : IsJsWhitespace(text[i])

\* Compare was refused because there is no text: the case of C8.
NoTextToCompare == ~diffResult.present /\ IsBlank(leftText) /\ IsBlank(rightText)

FullyUnchanged ==
  /\ diffResult.present
  /\ diffResult.added = 0
  /\ diffResult.removed = 0
  /\ diffResult.unchanged = diffResult.total

\* The words of a text: its maximal runs of characters that are not white
\* space.
InkWords(text) ==
  LET ink(i) == i >= 1 /\ i <= Len(text) /\ ~IsJsWhitespace(text[i])
      nth(set, k) == CHOOSE i \in set : Cardinality({x \in set : x < i}) = k - 1
      words(firsts, lasts) ==
        [k \in 1..Cardinality(firsts) |-> SubSeq(text, nth(firsts, k), nth(lasts, k))]
  IN  words({i \in 1..Len(text) : ink(i) /\ ~ink(i - 1)},
            {i \in 1..Len(text) : ink(i) /\ ~ink(i + 1)})

IsUpperLetter(u) == u >= CharCode["A"] /\ u <= CharCode["Z"]

\* Two texts that differ at most in the case of their letters
SameButCase(left, right) ==
  /\ Len(left) = Len(right)
  /\ \A i \in 1..Len(left) :
       \/ left[i] = right[i]
       \/ IsUpperLetter(left[i]) /\ right[i] = left[i] + 32
       \/ IsUpperLetter(right[i]) /\ left[i] = right[i] + 32

\* Two texts that differ at most in the white space around and between their
\* words
SameButSpacing(left, right) == InkWords(left) = InkWords(right)

C8_EmptyInputsRejected ==
  Compared =>
    IF Len(leftText) = 0 /\ Len(rightText) = 0
    THEN lastToast = "Error" /\ ~diffResult.present
    ELSE lastToast = "Diff Analysis Complete" /\ diffResult.present

\* C8: with both texts empty or of white space only, Compare reports an error
\* and gives no result; with a character other than white space in either
\* text it gives a result.
C8_BlankInputsRejected ==
  Compared =>
    IF IsBlank(leftText) /\ IsBlank(rightText)
    THEN lastToast = "Error" /\ ~diffResult.present
    ELSE lastToast = "Diff Analysis Complete" /\ diffResult.present

C8_Witness ==
  /\ Compared
  /\ Len(leftText) > 0
  /\ Len(rightText) = 0
  /\ IsBlank(leftText)
  /\ lastToast = "Error"
  /\ ~diffResult.present

(***************************************************************************)
(* ImageDiffTab. A picture is [present, width, height, colour]: the        *)
(* decoded image of a data URL, of one colour throughout.                  *)
(***************************************************************************)

MaxWidth == 800
MaxHeight == 600
DifferenceThreshold == 30

\* A fraction << numerator, denominator >> stands for a number that need not
\* be whole.
MinFraction(a, b) == IF a[1] * b[2] <= b[1] * a[2] THEN a ELSE b

RECURSIVE Gcd(_, _)
Gcd(a, b) == IF b = 0 THEN a ELSE Gcd(b, a % b)

\* The number n / d: an integer when it is whole, else the fraction in lowest
\* terms
Number(n, d) ==
  IF n % d = 0 THEN n \div d
  ELSE [numerator |-> n \div Gcd(n, d), denominator |-> d \div Gcd(n, d)]

\* The scale, had it been scale1 alone
ScaleOfFirst(img1, img2) ==
  LET lowest(f) == << f[1] \div Gcd(f[1], f[2]), f[2] \div Gcd(f[1], f[2]) >>
  IN  lowest(MinFraction(<< MaxWidth, img1.width >>, << MaxHeight, img1.height >>))

\* Math.min(scale1, scale2), in lowest terms
ScaleOf(img1, img2) ==
  LET lowest(f) == << f[1] \div Gcd(f[1], f[2]), f[2] \div Gcd(f[1], f[2]) >>
  IN  lowest(MinFraction(MinFraction(<< MaxWidth, img1.width >>,
                                     << MaxHeight, img1.height >>),
                         MinFraction(<< MaxWidth, img2.width >>,
                                     << MaxHeight, img2.height >>)))

\* canvas.width = width, canvas.height = height: a canvas takes the whole
\* part of the number it is given
CanvasWidth(img1, img2) ==
  LET whole(scale) == (Max(img1.width, img2.width) * scale[1]) \div scale[2]
  IN  whole(ScaleOf(img1, img2))

CanvasHeight(img1, img2) ==
  LET whole(scale) == (Max(img1.height, img2.height) * scale[1]) \div scale[2]
  IN  whole(ScaleOf(img1, img2))

\* const totalPixels = width * height, as a fraction
TotalPixels(img1, img2) ==
  LET product(scale) ==
        << Max(img1.width, img2.width) * scale[1]
             * Max(img1.height, img2.height) * scale[1],
           scale[2] * scale[2] >>
  IN  product(ScaleOf(img1, img2))

\* The pixels of a row (or column) of size cells that drawImage paints when the
\* picture is extent * scale wide: those whose centre the picture covers
Painted(extent, scale, size) ==
  Min(size, (2 * extent * scale[1] + scale[2]) \div (2 * scale[2]))

Abs(x) == IF x < 0 THEN 0 - x ELSE x

\* diff > 30
Differs(c1, c2) ==
  Abs(c1[1] - c2[1]) + Abs(c1[2] - c2[2]) + Abs(c1[3] - c2[3]) > DifferenceThreshold

\* The pixel loop: the count of pixels of the two canvases that differ, both
\* canvases white where their picture does not reach
DifferentPixels(img1, img2) ==
  LET count(cols1, rows1, cols2, rows2) ==
        LET both == Min(cols1, cols2) * Min(rows1, rows2)
        IN  (IF Differs(img1.colour, img2.colour) THEN both ELSE 0)
            + (IF Differs(img1.colour, White) THEN cols1 * rows1 - both ELSE 0)
            + (IF Differs(White, img2.colour) THEN cols2 * rows2 - both ELSE 0)
      on(scale, w, h) ==
        count(Painted(img1.width, scale, w), Painted(img1.height, scale, h),
              Painted(img2.width, scale, w), Painted(img2.height, scale, h))
  IN  on(ScaleOf(img1, img2), CanvasWidth(img1, img2), CanvasHeight(img1, img2))

ImageTally(img1, img2) ==
  LET result(differentPixels, totalPixels) ==
        [present |-> TRUE,
         added |-> 0,
         removed |-> 0,
         modified |-> differentPixels,
         unchanged |-> Number(totalPixels[1] - differentPixels * totalPixels[2],
                              totalPixels[2]),
         total |-> Number(totalPixels[1], totalPixels[2])]
  IN  result(DifferentPixels(img1, img2), TotalPixels(img1, img2))

\* The canvases that are on the page: renderImageView draws one view only.
LeftCanvasMounted == imageViewMode = SideBySide /\ leftImage.present
RightCanvasMounted == imageViewMode = SideBySide /\ rightImage.present
DiffCanvasMounted == imageViewMode = Difference

\* reader.onload of handleImageUpload
ImageUploaded(side, image) ==
  /\ page = "mounted"
  /\ activeTab = DiffModes.image
  /\ IF side = "left"
     THEN leftImage' = image /\ UNCHANGED rightImage
     ELSE rightImage' = image /\ UNCHANGED leftImage
  /\ UNCHANGED << imageViewMode, calculation >>
  /\ UNCHANGED << codecVars, appVars, tabVars, fileVars >>

\* 10 * 1024 * 1024
MaxImageFileSize == 10 * 1024 * 1024

\* input.onchange of handleImageUpload: the size limit, then the FileReader
HandleImageUpload(side, file) ==
  IF file.size > MaxImageFileSize
  THEN /\ page = "mounted"
       /\ activeTab = DiffModes.image
       /\ lastToast' = "Error"
       /\ UNCHANGED << page, activeTab, leftContent, rightContent, diffSettings,
                       diffResult, isProcessing, edits >>
       /\ UNCHANGED << codecVars, tabVars, imageVars, fileVars >>
  ELSE ImageUploaded(side, file.image)

\* <select value={viewMode} onChange={(e) => setViewMode(e.target.value)}>
SetImageViewMode(view) ==
  /\ page = "mounted"
  /\ activeTab = DiffModes.image
  /\ view # imageViewMode
  /\ imageViewMode' = view
  /\ UNCHANGED << leftImage, rightImage, calculation >>
  /\ UNCHANGED << codecVars, appVars, tabVars, fileVars >>

\* calculateDifference, up to its await: Analyze Differences is disabled while
\* isProcessing
CalculateDifference ==
  /\ page = "mounted"
  /\ activeTab = DiffModes.image
  /\ ~isProcessing
  /\ IF ~leftImage.present \/ ~rightImage.present
     THEN /\ lastToast' = "Error"
          /\ UNCHANGED << isProcessing, calculation >>
     ELSE /\ isProcessing' = TRUE
          /\ calculation' = [running |-> TRUE, img1 |-> leftImage, img2 |-> rightImage]
          /\ UNCHANGED lastToast
  /\ UNCHANGED << page, activeTab, leftContent, rightContent, diffSettings, diffResult,
                  edits >>
  /\ UNCHANGED << leftImage, rightImage, imageViewMode >>
  /\ UNCHANGED << codecVars, tabVars, fileVars >>

\* calculateDifference, once both pictures have loaded
ImagesLoaded ==
  /\ calculation.running
  /\ calculation.img1.decodable
  /\ calculation.img2.decodable
  /\ calculation' = NoCalculation
  /\ isProcessing' = FALSE
  /\ IF ~LeftCanvasMounted \/ ~RightCanvasMounted \/ ~DiffCanvasMounted
     THEN UNCHANGED << diffResult, lastToast >>
     ELSE /\ diffResult' = ImageTally(calculation.img1, calculation.img2)
          /\ lastToast' = "Image Analysis Complete"
  /\ UNCHANGED << page, activeTab, leftContent, rightContent, diffSettings, edits >>
  /\ UNCHANGED << leftImage, rightImage, imageViewMode >>
  /\ UNCHANGED << codecVars, tabVars, fileVars >>

(***************************************************************************)
(* The image scenario: the Images tab is open; pictures are uploaded, the  *)
(* view is chosen and Analyze Differences is pressed.                      *)
(***************************************************************************)

ImageSizes == {<< 1, 1 >>, << 4, 3 >>, << 900, 700 >>, << 300, 1200 >>}
\* A file that is not a picture: its data URL never fires onload.
CorruptImage ==
  [present |-> TRUE, width |-> 0, height |-> 0, colour |-> White, decodable |-> FALSE]
Images ==
  {[present |-> TRUE, width |-> size[1], height |-> size[2], colour |-> colour,
    decodable |-> TRUE] : size \in ImageSizes, colour \in {Black, White}}
    \cup {CorruptImage}

\* The files picked for upload: [size, image], size in bytes
ImageFileSizes == {1, MaxImageFileSize, MaxImageFileSize + 1}
ImageFiles == [size : ImageFileSizes, image : Images]

ImageInit ==
  /\ now = StartTime
  /\ hash = << >>
  /\ localStorage = EmptyStorage
  /\ sessionStorage = EmptyStorage
  /\ shareUrl = << >>
  /\ data = JNull
  /\ typed = << >>
  /\ parsed = [called |-> TRUE, value |-> JNull]
  /\ phase = "idle"
  /\ page = "mounted"
  /\ activeTab = DiffModes.image
  /\ leftContent = << >>
  /\ rightContent = << >>
  /\ diffSettings = JObj(<< >>)
  /\ diffResult = NoResult
  /\ isProcessing = FALSE
  /\ lastToast = ""
  /\ edits = 0
  /\ TextTabUnmounted
  /\ ImageTabUnmounted
  /\ FileTabUnmounted

ImageNext ==
  \/ \E side \in {"left", "right"}, file \in ImageFiles : HandleImageUpload(side, file)
  \/ \E view \in {SideBySide, Overlay, Difference} : SetImageViewMode(view)
  \/ CalculateDifference
  \/ ImagesLoaded

SpecImage == ImageInit /\ [][ImageNext]_vars

\* calculateDifference comes to its end in this step.
Analyzed == calculation.running /\ ~calculation'.running

\* C9: the analysis of a picture against an identical copy gives a result with
\* modified = 0 and unchanged = total = width * height of the canvas.
C9_IdenticalImagesUnchanged ==
  [][(Analyzed /\ calculation.img1 = calculation.img2) =>
       /\ diffResult'.present
       /\ diffResult'.modified = 0
       /\ diffResult'.unchanged = diffResult'.total
       /\ diffResult'.total = CanvasWidth(calculation.img1, calculation.img2)
                                * CanvasHeight(calculation.img1, calculation.img2)]_vars

\* C10: the analysis of an all-black picture against an all-white picture of
\* the same dimensions gives a result with modified = total and unchanged = 0.
C10_BlackAgainstWhiteAllModified ==
  [][(/\ Analyzed
      /\ calculation.img1.colour = Black
      /\ calculation.img2.colour = White
      /\ calculation.img1.width = calculation.img2.width
      /\ calculation.img1.height = calculation.img2.height) =>
       /\ diffResult'.present
       /\ diffResult'.modified = diffResult'.total
       /\ diffResult'.unchanged = 0]_vars

\* C11: the analysis of two loaded pictures ends with its result handed to
\* onDiffComplete and the analysis reported as complete, whatever the view.
C11_AnalysisDelivers ==
  [][Analyzed =>
       /\ diffResult' = ImageTally(calculation.img1, calculation.img2)
       /\ lastToast' = "Image Analysis Complete"]_vars

\* C12: an analysis that ends without one of its three canvases reports an
\* error and hands over no result.
C12_MissingCanvasReported ==
  [][(/\ Analyzed
      /\ ~(LeftCanvasMounted /\ RightCanvasMounted /\ DiffCanvasMounted)
      /\ lastToast = "") =>
       /\ lastToast' = "Error"
       /\ diffResult' = diffResult]_vars

(***************************************************************************)
(* FileDiffTab.  A File the user picks is [name, size, type, lastModified, *)
(* bytes, rest]: its bytes, followed by rest more bytes of value 0 (so     *)
(* that a file at the size limit can be written down); size is their       *)
(* number.                                                                 *)
(***************************************************************************)

\* The limit, had it been one byte lower
MaxFileSizeOneLess == 100 * 1024 * 1024 - 1

\* 100 * 1024 * 1024
MaxFileSize == 100 * 1024 * 1024

ReplacementCharacter == 65533

\* FileReader.readAsText: UTF-8 decoding of the bytes.  A byte below 128 is
\* the character of that code; a byte that cannot start a character (here
\* 255) decodes to U+FFFD.
DecodeByte(byte) == IF byte < 128 THEN byte ELSE ReplacementCharacter

ReadAsText(file) ==
  [kind |-> "string",
   units |-> [i \in 1..Len(file.bytes) |-> DecodeByte(file.bytes[i])],
   rest |-> file.rest]

\* FileReader.readAsArrayBuffer
ReadAsArrayBuffer(file) ==
  [kind |-> "buffer", units |-> file.bytes, rest |-> file.rest]

\* reader.onload: the FileInfo is stored on its side
FileLoaded(side, fileInfo) ==
  /\ page = "mounted"
  /\ activeTab = DiffModes.file
  /\ IF side = "left"
     THEN leftFile' = fileInfo /\ UNCHANGED rightFile
     ELSE rightFile' = fileInfo /\ UNCHANGED leftFile
  /\ UNCHANGED comparisonMode
  /\ UNCHANGED << codecVars, appVars, tabVars, imageVars >>

\* comparisonMode === 'text' || file.type.startsWith('text/')
ReadsAsText(mode, file) ==
  mode = TextMode \/ StartsWith(file.type, Str(<< "t", "e", "x", "t", "/" >>))

\* The FileInfo that the reader's onload builds
FileInfoOf(mode, file) ==
  [present |-> TRUE, name |-> file.name, size |-> file.size,
   type |-> file.type,
   content |-> IF ReadsAsText(mode, file)
               THEN ReadAsText(file)
               ELSE ReadAsArrayBuffer(file),
   lastModified |-> file.lastModified]

\* input.onchange of handleFileUpload: the size limit, then the FileReader
\* and its onload, which follows at once
HandleFileUpload(side, file) ==
  IF file.size > MaxFileSize
  THEN /\ page = "mounted"
       /\ activeTab = DiffModes.file
       /\ lastToast' = "Error"
       /\ UNCHANGED << page, activeTab, leftContent, rightContent, diffSettings,
                       diffResult, isProcessing, edits >>
       /\ UNCHANGED << codecVars, tabVars, imageVars, fileVars >>
  ELSE /\ FileLoaded(side, FileInfoOf(comparisonMode, file))
       /\ lastSelected' = [lastSelected EXCEPT ![side] = FileInfoOf(comparisonMode, file)]
       /\ UNCHANGED pendingReads

\* <select value={comparisonMode} onChange={(e) => setComparisonMode(...)}>
SetComparisonMode(mode) ==
  /\ page = "mounted"
  /\ activeTab = DiffModes.file
  /\ mode # comparisonMode
  /\ comparisonMode' = mode
  /\ UNCHANGED << leftFile, rightFile, pendingReads, lastSelected >>
  /\ UNCHANGED << codecVars, appVars, tabVars, imageVars >>

\* case 'metadata', had added and removed been taken from the other field
MetadataTallySwapped(left, right) ==
  [present |-> TRUE,
   added |-> IF left.size # right.size THEN 1 ELSE 0,
   removed |-> IF left.name # right.name THEN 1 ELSE 0,
   modified |-> IF left.lastModified # right.lastModified THEN 1 ELSE 0,
   unchanged |-> 0,
   total |-> 3]

\* case 'metadata'
MetadataTally(left, right) ==
  [present |-> TRUE,
   added |-> IF left.name # right.name THEN 1 ELSE 0,
   removed |-> IF left.size # right.size THEN 1 ELSE 0,
   modified |-> IF left.lastModified # right.lastModified THEN 1 ELSE 0,
   unchanged |-> 0,
   total |-> 3]

\* content.split('\n'): the lines, each [units, rest]; the zero units that
\* end the content end its last line.
LineFeed == 10

RECURSIVE SplitLines(_, _, _)
SplitLines(units, rest, line) ==
  IF units = << >>
  THEN << [units |-> line, rest |-> rest] >>
  ELSE IF Head(units) = LineFeed
       THEN << [units |-> line, rest |-> 0] >> \o SplitLines(Tail(units), rest, << >>)
       ELSE SplitLines(Tail(units), rest, Append(line, Head(units)))

FileLines(content) == SplitLines(content.units, content.rest, << >>)

EmptyLine == [units |-> << >>, rest |-> 0]

\* leftLines[i] || ''
LineAt(lines, i) == IF i <= Len(lines) THEN lines[i] ELSE EmptyLine

\* case 'text', had the walk tested the right line for emptiness first
TextFileTallySwapped(left, right) ==
  LET tally(leftLines, rightLines) ==
        LET maxLines == Max(Len(leftLines), Len(rightLines))
            same == {i \in 1..maxLines : LineAt(leftLines, i) = LineAt(rightLines, i)}
            onlyRight == {i \in (1..maxLines) \ same : LineAt(rightLines, i) = EmptyLine}
            onlyLeft == {i \in (1..maxLines) \ (same \cup onlyRight) :
                           LineAt(leftLines, i) = EmptyLine}
        IN  [present |-> TRUE,
             added |-> Cardinality(onlyRight),
             removed |-> Cardinality(onlyLeft),
             modified |-> maxLines - Cardinality(same) - Cardinality(onlyRight)
                            - Cardinality(onlyLeft),
             unchanged |-> Cardinality(same),
             total |-> maxLines]
  IN  tally(FileLines(left.content), FileLines(right.content))

\* case 'text': the walk over the lines
TextFileTally(left, right) ==
  LET tally(leftLines, rightLines) ==
        LET maxLines == Max(Len(leftLines), Len(rightLines))
            same == {i \in 1..maxLines : LineAt(leftLines, i) = LineAt(rightLines, i)}
            onlyRight == {i \in (1..maxLines) \ same : LineAt(leftLines, i) = EmptyLine}
            onlyLeft == {i \in (1..maxLines) \ (same \cup onlyRight) :
                           LineAt(rightLines, i) = EmptyLine}
        IN  [present |-> TRUE,
             added |-> Cardinality(onlyRight),
             removed |-> Cardinality(onlyLeft),
             modified |-> maxLines - Cardinality(same) - Cardinality(onlyRight)
                            - Cardinality(onlyLeft),
             unchanged |-> Cardinality(same),
             total |-> maxLines]
  IN  tally(FileLines(left.content), FileLines(right.content))

\* new Uint8Array(content).length
ByteLength(content) == Len(content.units) + content.rest

\* leftBytes[i] || 0, i counted from 1
ByteAtZeroPadded(content, i) ==
  IF i <= Len(content.units) THEN content.units[i] ELSE 0

\* differentBytes, had the loop read the right byte one position ahead
DifferentBytesShifted(left, right) ==
  Cardinality({i \in 1..Max(Len(left.units), Len(right.units)) :
                 ByteAtZeroPadded(left, i) # ByteAtZeroPadded(right, i + 1)})

\* differentBytes: the positions past the bytes written down hold 0 on both
\* sides, as a byte of the file or as the || 0 of a missing one
DifferentBytes(left, right) ==
  Cardinality({i \in 1..Max(Len(left.units), Len(right.units)) :
                 ByteAtZeroPadded(left, i) # ByteAtZeroPadded(right, i)})

\* default: // binary, had the walk stopped at the end of the shorter buffer
BinaryTallyOverlap(left, right) ==
  LET tally(leftLength, rightLength, differentBytes) ==
        [present |-> TRUE,
         added |-> Max(0, rightLength - leftLength),
         removed |-> Max(0, leftLength - rightLength),
         modified |-> differentBytes,
         unchanged |-> Min(leftLength, rightLength) - differentBytes,
         total |-> Min(leftLength, rightLength)]
  IN  tally(ByteLength(left.content), ByteLength(right.content),
            Cardinality({i \in 1..Min(ByteLength(left.content), ByteLength(right.content)) :
                           ByteAtZeroPadded(left.content, i)
                             # ByteAtZeroPadded(right.content, i)}))

\* default: // binary
BinaryTally(left, right) ==
  LET tally(leftLength, rightLength, differentBytes) ==
        [present |-> TRUE,
         added |-> Max(0, rightLength - leftLength),
         removed |-> Max(0, leftLength - rightLength),
         modified |-> differentBytes,
         unchanged |-> Max(leftLength, rightLength) - differentBytes,
         total |-> Max(leftLength, rightLength)]
  IN  tally(ByteLength(left.content), ByteLength(right.content),
            DifferentBytes(left.content, right.content))

\* The checks, had they asked for one side of the right type only
TypesAcceptedOnOneSide(mode, left, right) ==
  IF mode = Metadata THEN TRUE
  ELSE IF mode = TextMode
       THEN left.content.kind = "string" \/ right.content.kind = "string"
       ELSE left.content.kind = "buffer" \/ right.content.kind = "buffer"

\* typeof content === 'string' on both sides, for 'text'; content instanceof
\* ArrayBuffer on both sides, for binary; 'metadata' does not look at it
TypesAccepted(mode, left, right) ==
  IF mode = Metadata THEN TRUE
  ELSE IF mode = TextMode
       THEN left.content.kind = "string" /\ right.content.kind = "string"
       ELSE left.content.kind = "buffer" /\ right.content.kind = "buffer"

FileTally(mode, left, right) ==
  IF mode = Metadata THEN MetadataTally(left, right)
  ELSE IF mode = TextMode THEN TextFileTally(left, right)
       ELSE BinaryTally(left, right)

\* compareFiles: Compare Files is disabled while isProcessing
CompareFiles ==
  /\ page = "mounted"
  /\ activeTab = DiffModes.file
  /\ ~isProcessing
  /\ IF ~leftFile.present \/ ~rightFile.present
     THEN /\ lastToast' = "Error"
          /\ UNCHANGED << diffResult, isProcessing >>
     ELSE IF ~TypesAccepted(comparisonMode, leftFile, rightFile)
          THEN /\ lastToast' = "Error"
               /\ isProcessing' = FALSE
               /\ UNCHANGED diffResult
          ELSE /\ diffResult' = FileTally(comparisonMode, leftFile, rightFile)
               /\ lastToast' = "File Comparison Complete"
               /\ isProcessing' = FALSE
  /\ UNCHANGED << page, activeTab, leftContent, rightContent, diffSettings, edits >>
  /\ UNCHANGED << codecVars, tabVars, imageVars, fileVars >>

\* Clear All of the file tab
ClearFiles ==
  /\ page = "mounted"
  /\ activeTab = DiffModes.file
  /\ leftFile' = NoFile
  /\ rightFile' = NoFile
  /\ lastSelected' = NothingSelected
  /\ UNCHANGED << comparisonMode, pendingReads >>
  /\ UNCHANGED << codecVars, appVars, tabVars, imageVars >>

(***************************************************************************)
(* The file scenario: the Files tab is open; files are uploaded, the mode  *)
(* is chosen and Compare Files is pressed.                                 *)
(***************************************************************************)

MaxFileLen == 1
FileBytes == {0, 97}
ByteSeqs == UNION {[1..n -> FileBytes] : n \in 0..MaxFileLen}

FileNameA == Str(<< "a" >>)
FileNameB == Str(<< "b" >>)
TextPlain == Str(<< "t", "e", "x", "t", "/", "p", "l", "a", "i", "n" >>)

FileOf(name, type, lastModified, bytes, rest) ==
  [name |-> name, size |-> Len(bytes) + rest, type |-> type,
   lastModified |-> lastModified, bytes |-> bytes, rest |-> rest]

\* Files of every content up to the bound, files of several lines, one that
\* is not UTF-8, and files that differ in name, date or MIME type only.
Files ==
  {FileOf(FileNameA, << >>, 1, bytes, 0) : bytes \in ByteSeqs}
    \cup {FileOf(FileNameA, << >>, 1, << LineFeed >>, 0),
          FileOf(FileNameA, << >>, 1, << 97, LineFeed >>, 0),
          FileOf(FileNameA, << >>, 1, << LineFeed, 97 >>, 0),
          FileOf(FileNameA, << >>, 1, << 255 >>, 0),
          FileOf(FileNameB, << >>, 1, << 97 >>, 0),
          FileOf(FileNameA, << >>, 2, << 97 >>, 0),
          FileOf(FileNameA, TextPlain, 1, << 97 >>, 0)}

FileInit ==
  /\ now = StartTime
  /\ hash = << >>
  /\ localStorage = EmptyStorage
  /\ sessionStorage = EmptyStorage
  /\ shareUrl = << >>
  /\ data = JNull
  /\ typed = << >>
  /\ parsed = [called |-> TRUE, value |-> JNull]
  /\ phase = "idle"
  /\ page = "mounted"
  /\ activeTab = DiffModes.file
  /\ leftContent = << >>
  /\ rightContent = << >>
  /\ diffSettings = JObj(<< >>)
  /\ diffResult = NoResult
  /\ isProcessing = FALSE
  /\ lastToast = ""
  /\ edits = 0
  /\ TextTabUnmounted
  /\ ImageTabUnmounted
  /\ FileTabUnmounted

FileNext ==
  \/ \E side \in {"left", "right"}, file \in Files : HandleFileUpload(side, file)
  \/ \E mode \in {Binary, TextMode, Metadata} : SetComparisonMode(mode)
  \/ CompareFiles
  \/ ClearFiles

SpecFile == FileInit /\ [][FileNext]_vars

\* Both files are held and Compare Files is pressed in the given mode
ComparesIn(mode) ==
  /\ CompareFiles
  /\ comparisonMode = mode
  /\ leftFile.present
  /\ rightFile.present

ZeroTally(n) ==
  [present |-> TRUE, added |-> 0, removed |-> 0, modified |-> 0,
   unchanged |-> n, total |-> n]

\* C13: the binary comparison of two buffers of the same N bytes gives
\* modified = added = removed = 0 and unchanged = total = N, N = 0 included.
C13_IdenticalBuffersUnchanged ==
  [][(/\ ComparesIn(Binary)
      /\ leftFile.content.kind = "buffer"
      /\ rightFile.content = leftFile.content) =>
       diffResult' = ZeroTally(Len(leftFile.content.units) + leftFile.content.rest)]_vars

\* Two empty buffers have been compared; two buffers of one byte can be.
C13_Witness ==
  /\ comparisonMode = Binary
  /\ leftFile.present
  /\ leftFile.content.kind = "buffer"
  /\ rightFile.content = leftFile.content
  /\ leftFile.content.units = << >>
  /\ diffResult = ZeroTally(0)
  /\ lastToast = "File Comparison Complete"

\* C14: when the right buffer is the left one followed by one more byte, of
\* any value, the binary comparison gives added = 1, removed = 0 and
\* modified = 0.
C14_TrailingByteAdded ==
  [][(/\ ComparesIn(Binary)
      /\ leftFile.content.kind = "buffer"
      /\ rightFile.content.kind = "buffer"
      /\ leftFile.content.rest = 0
      /\ rightFile.content.rest = 0
      /\ \E byte \in 0..255 :
           rightFile.content.units = Append(leftFile.content.units, byte)) =>
       /\ diffResult'.added = 1
       /\ diffResult'.removed = 0
       /\ diffResult'.modified = 0]_vars

\* A file read as bytes is compared as text, or one read as text is
\* compared as bytes
TypeMismatch ==
  \/ /\ comparisonMode = TextMode
     /\ "buffer" \in {leftFile.content.kind, rightFile.content.kind}
  \/ /\ comparisonMode = Binary
     /\ "string" \in {leftFile.content.kind, rightFile.content.kind}

\* C15: a comparison in text mode of a file read as bytes, or in binary mode
\* of a file read as text, reports an error and leaves the result as it was;
\* a comparison in metadata mode never reports one.
C15_TypeMismatchReported ==
  [][/\ (ComparesIn(TextMode) \/ ComparesIn(Binary)) /\ TypeMismatch =>
          lastToast' = "Error" /\ diffResult' = diffResult
     /\ ComparesIn(Metadata) =>
          /\ lastToast' = "File Comparison Complete"
          /\ diffResult'.present
          /\ diffResult'.total = 3]_vars

\* A comparison has given a result, and a later one, of a file read as
\* bytes in text mode, an error
C15_Witness ==
  /\ comparisonMode = TextMode
  /\ leftFile.present
  /\ rightFile.present
  /\ leftFile.content.kind = "buffer"
  /\ rightFile.content.kind = "string"
  /\ diffResult.present
  /\ lastToast = "Error"

\* C16: a comparison in metadata mode gives total = 3 and unchanged = 0, and
\* added, removed and modified are 1 exactly when the names, the sizes and
\* the dates of last modification differ, and 0 otherwise.
C16_MetadataTally ==
  [][ComparesIn(Metadata) =>
       /\ diffResult'.total = 3
       /\ diffResult'.unchanged = 0
       /\ diffResult'.added \in {0, 1}
       /\ diffResult'.removed \in {0, 1}
       /\ diffResult'.modified \in {0, 1}
       /\ diffResult'.added = 1 <=> leftFile.name # rightFile.name
       /\ diffResult'.removed = 1 <=> leftFile.size # rightFile.size
       /\ diffResult'.modified = 1 <=> leftFile.lastModified # rightFile.lastModified]_vars

\* Two files of the same size and date under different names have been
\* compared in metadata mode
C16_Witness ==
  /\ comparisonMode = Metadata
  /\ leftFile.present
  /\ rightFile.present
  /\ leftFile.name # rightFile.name
  /\ leftFile.size = rightFile.size
  /\ leftFile.lastModified = rightFile.lastModified
  /\ diffResult = [present |-> TRUE, added |-> 1, removed |-> 0, modified |-> 0,
                   unchanged |-> 0, total |-> 3]
  /\ lastToast = "File Comparison Complete"

(***************************************************************************)
(* The upload scenario: the Images tab or the Files tab is open, and files *)
(* below, at and above the size limit of the tab are picked.               *)
(***************************************************************************)

UploadFiles ==
  {FileOf(FileNameA, << >>, 1, << 97 >>, 0),
   FileOf(FileNameB, TextPlain, 2, << 97, LineFeed >>, 0),
   FileOf(FileNameA, << >>, 1, << 97 >>, MaxFileSize - 1),
   FileOf(FileNameB, << >>, 1, << 97 >>, MaxFileSize)}

UploadInit ==
  /\ now = StartTime
  /\ hash = << >>
  /\ localStorage = EmptyStorage
  /\ sessionStorage = EmptyStorage
  /\ shareUrl = << >>
  /\ data = JNull
  /\ typed = << >>
  /\ parsed = [called |-> TRUE, value |-> JNull]
  /\ phase = "idle"
  /\ page = "mounted"
  /\ activeTab \in {DiffModes.image, DiffModes.file}
  /\ leftContent = << >>
  /\ rightContent = << >>
  /\ diffSettings = JObj(<< >>)
  /\ diffResult = NoResult
  /\ isProcessing = FALSE
  /\ lastToast = ""
  /\ edits = 0
  /\ TextTabUnmounted
  /\ ImageTabUnmounted
  /\ FileTabUnmounted

UploadNext ==
  \/ \E side \in {"left", "right"}, file \in ImageFiles : HandleImageUpload(side, file)
  \/ \E side \in {"left", "right"}, file \in UploadFiles : HandleFileUpload(side, file)
  \/ \E mode \in {Binary, TextMode, Metadata} : SetComparisonMode(mode)

SpecUpload == UploadInit /\ [][UploadNext]_vars

\* C17: a file of more than 100 MB picked in the Files tab, or of more than
\* 10 MB picked in the Images tab, is answered with an error and leaves the
\* files and pictures held on both sides as they were; a file of exactly the
\* limit, or smaller, is read and held on its side.
C17_SizeCeiling ==
  [][/\ \A side \in {"left", "right"}, file \in UploadFiles :
          HandleFileUpload(side, file) =>
            IF file.size > 100 * 1024 * 1024
            THEN /\ lastToast' = "Error"
                 /\ UNCHANGED << leftFile, rightFile, leftImage, rightImage >>
            ELSE /\ (IF side = "left" THEN leftFile' ELSE rightFile').present
                 /\ (IF side = "left" THEN leftFile' ELSE rightFile').size = file.size
                 /\ (IF side = "left" THEN leftFile' ELSE rightFile').name = file.name
                 /\ IF side = "left" THEN rightFile' = rightFile ELSE leftFile' = leftFile
     /\ \A side \in {"left", "right"}, file \in ImageFiles :
          HandleImageUpload(side, file) =>
            IF file.size > 10 * 1024 * 1024
            THEN /\ lastToast' = "Error"
                 /\ UNCHANGED << leftFile, rightFile, leftImage, rightImage >>
            ELSE /\ (IF side = "left" THEN leftImage' ELSE rightImage') = file.image
                 /\ IF side = "left" THEN rightImage' = rightImage
                                    ELSE leftImage' = leftImage]_vars

\* A file of exactly 100 MB is held on the left, and a later pick has been
\* refused with both files kept
C17_Witness ==
  /\ leftFile.present
  /\ leftFile.size = 100 * 1024 * 1024
  /\ rightFile.present
  /\ lastToast = "Error"

(***************************************************************************)
(* The session: the page is opened, with or without a shared link, and the *)
(* user works in the text, image and file tabs, shares, switches tabs and  *)
(* reloads.                                                                *)
(***************************************************************************)

SessionImageFiles ==
  {[size |-> 1, image |-> image] :
     image \in {[present |-> TRUE, width |-> 1, height |-> 1, colour |-> Black,
                 decodable |-> TRUE],
                CorruptImage}}

SessionFiles == {FileOf(FileNameA, << >>, 1, << 97 >>, 0)}

\* The page is opened without a link, or with the link of a shared text
\* comparison of "a" and "b" under the default settings.
SessionHashes ==
  {<< >>,
   FragmentOf(GenerateShareableURL(
                SharedDiffData(DiffModes.text, Str(<< "a" >>), Str(<< "b" >>),
                               DefaultSettings, StartTime - 1),
                StartTime - 1, Str(<< "k", "3" >>), EmptyStorage, EmptyStorage).url)}

SessionInit == AppInit /\ hash \in SessionHashes

SessionNext ==
  \/ AppNext
  \/ PerformDiff
  \/ \E side \in {"left", "right"}, file \in SessionImageFiles :
       HandleImageUpload(side, file)
  \/ \E view \in {SideBySide, Overlay, Difference} : SetImageViewMode(view)
  \/ CalculateDifference
  \/ ImagesLoaded
  \/ \E side \in {"left", "right"}, file \in SessionFiles : HandleFileUpload(side, file)
  \/ \E mode \in {Binary, TextMode, Metadata} : SetComparisonMode(mode)
  \/ CompareFiles
  \/ ClearFiles

SpecSession == SessionInit /\ [][SessionNext]_vars

\* The toasts that follow onDiffComplete in the three tabs
Completions ==
  {"Diff Analysis Complete", "Image Analysis Complete", "File Comparison Complete"}

\* C18: the result DiffChecker holds changes only in a step of a comparison
\* that succeeds; an error, a tab switch, Clear All, sharing and a change of
\* settings leave it as it is.  (A page that is loaded starts without one.)
C18_ResultOnlyFromComparison ==
  [][diffResult' # diffResult =>
       \/ page' = "loading"
       \/ /\ PerformDiff \/ ImagesLoaded \/ CompareFiles
          /\ diffResult'.present
          /\ lastToast' \in Completions]_vars

\* A result is held in the Files tab after a comparison has ended in an
\* error there
C18_Witness ==
  /\ page = "mounted"
  /\ activeTab = DiffModes.file
  /\ diffResult.present
  /\ lastToast = "Error"

(***************************************************************************)
(* The sweep scenario: the storages hold entries of several ages and       *)
(* shapes, under keys with and without the prefixes, when a page loads and *)
(* its mount effect calls cleanupOldShares.                                *)
(***************************************************************************)

\* JSON.stringify({timestamp})
StoredAt(timestamp) == JSONStringify(JObj(<< Prop(KeyTimestamp, JNum(timestamp)) >>))

\* What an entry may hold: a share made now, exactly seven days ago and a
\* millisecond earlier, one of timestamp 0, text that is no JSON, and the
\* empty string.
StoredValues ==
  {StoredAt(StartTime), StoredAt(StartTime - MaxAge), StoredAt(StartTime - MaxAge - 1),
   StoredAt(0), Str(<< "x" >>), << >>}

DiffKey == DiffKeyPrefix \o Str(<< "a" >>)
OtherKey == Str(<< "a" >>)

StoragesOver(keys) ==
  UNION {[held -> StoredValues] : held \in SUBSET keys}

SweepInit ==
  /\ now = StartTime
  /\ hash = << >>
  /\ localStorage \in StoragesOver({DiffKey, OtherKey})
  /\ sessionStorage \in StoragesOver({SessionKeyPrefix \o DiffKey, DiffKey})
  /\ shareUrl = << >>
  /\ parsed = NotParsed
  /\ phase = "shared"
  /\ data = JNull
  /\ typed = << >>
  /\ PageClosed
  /\ TextTabUnmounted
  /\ ImageTabUnmounted
  /\ FileTabUnmounted

SweepNext ==
  \/ CallCleanupOldShares
  \/ Tick

SpecSweep == SweepInit /\ [][SweepNext]_vars

\* The value is no JSON text
Unparseable(value) == ~JSONParse(value).ok

\* The value is a JSON object whose timestamp lies at least age before now
AgedOver(value, age) ==
  LET aged(p) ==
        /\ p.ok
        /\ p.v.t = "object"
        /\ Get(p.v, KeyTimestamp).t = "number"
        /\ now - Get(p.v, KeyTimestamp).n > age
  IN  aged(JSONParse(value))

AgedAtMost(value, age) ==
  LET aged(p) ==
        /\ p.ok
        /\ p.v.t = "object"
        /\ Get(p.v, KeyTimestamp).t = "number"
        /\ now - Get(p.v, KeyTimestamp).n <= age
  IN  aged(JSONParse(value))

\* What the claim says of one storage and its sweep
SweptAsClaimed(storage, swept, prefix) ==
  \A key \in DOMAIN storage :
    /\ (/\ StartsWith(key, prefix)
        /\ Unparseable(storage[key]) \/ AgedOver(storage[key], 7 * 24 * 60 * 60 * 1000))
         => key \notin DOMAIN swept
    /\ (~StartsWith(key, prefix) \/ AgedAtMost(storage[key], 7 * 24 * 60 * 60 * 1000))
         => key \in DOMAIN swept /\ swept[key] = storage[key]

\* C19: cleanupOldShares removes every 'diff_' entry of localStorage, and
\* every 'share_diff_' entry of sessionStorage, whose value cannot be parsed
\* or whose timestamp is more than 7 days before now, and leaves every entry
\* of 7 days or less and every key without the prefix as it is.
C19_ExpirySweep ==
  LET claimed(r) ==
        /\ SweptAsClaimed(localStorage, r.localStorage, DiffKeyPrefix)
        /\ SweptAsClaimed(sessionStorage, r.sessionStorage,
                          SessionKeyPrefix \o DiffKeyPrefix)
  IN  claimed(CleanupOldShares(localStorage, sessionStorage, now))

\* The image scenario with the browser's part of it: a picture that can be
\* decoded is decoded in the end, and its onload handler runs.
SpecImageFair == ImageInit /\ [][ImageNext]_vars /\ WF_vars(ImagesLoaded)

\* C20: a comparison that has set isProcessing to true sets it back to false
\* in the end.
C20_ComparisonCompletes == isProcessing ~> ~isProcessing

\* The bytes of a buffer, and its byte at a position counted from 1, read
\* as 0 past its end
BytesOf(content) == content.units \o [i \in 1..content.rest |-> 0]
PaddedByte(bytes, i) == IF i <= Len(bytes) THEN bytes[i] ELSE 0

\* C21: the binary comparison of buffers L and R gives total = max(|L|, |R|),
\* modified = the number of positions below total at which the bytes, the
\* shorter buffer padded with zeros, differ, added = max(0, |R| - |L|),
\* removed = max(0, |L| - |R|) and unchanged = total - modified; so
\* modified + unchanged = total and 0 <= modified <= total.
C21_BinaryTally ==
  [][(/\ ComparesIn(Binary)
      /\ leftFile.content.kind = "buffer"
      /\ rightFile.content.kind = "buffer") =>
       LET claimed(L, R) ==
             LET total == IF Len(L) >= Len(R) THEN Len(L) ELSE Len(R)
                 differing == {i \in 1..total : PaddedByte(L, i) # PaddedByte(R, i)}
             IN  /\ diffResult'.total = total
                 /\ diffResult'.modified = Cardinality(differing)
                 /\ diffResult'.added = (IF Len(R) > Len(L) THEN Len(R) - Len(L) ELSE 0)
                 /\ diffResult'.removed = (IF Len(L) > Len(R) THEN Len(L) - Len(R) ELSE 0)
                 /\ diffResult'.unchanged = total - Cardinality(differing)
                 /\ diffResult'.modified + diffResult'.unchanged = diffResult'.total
                 /\ 0 <= diffResult'.modified
                 /\ diffResult'.modified <= diffResult'.total
       IN  claimed(BytesOf(leftFile.content), BytesOf(rightFile.content))]_vars

\* A buffer of one byte has been compared with one of two other bytes
C21_Witness ==
  /\ comparisonMode = Binary
  /\ leftFile.content.kind = "buffer"
  /\ rightFile.content.kind = "buffer"
  /\ leftFile.content.units = << 97 >>
  /\ rightFile.content.units = << LineFeed, 97 >>
  /\ diffResult = [present |-> TRUE, added |-> 1, removed |-> 0, modified |-> 2,
                   unchanged |-> 0, total |-> 2]
  /\ lastToast = "File Comparison Complete"

\* The lines of a text: the pieces between its line feeds
RECURSIVE LinesOfText(_)
LinesOfText(text) ==
  IF \A i \in 1..Len(text) : text[i] # 10
  THEN << text >>
  ELSE LET first == CHOOSE i \in 1..Len(text) :
                      text[i] = 10 /\ \A j \in 1..(i - 1) : text[j] # 10
       IN  << SubSeq(text, 1, first - 1) >>
             \o LinesOfText(SubSeq(text, first + 1, Len(text)))

\* C22: the text comparison of two files walks the lines of both, split at
\* the line feeds, up to the longer count, the shorter side padded with empty
\* lines; a position is unchanged when the lines are equal (both empty
\* included), added when only the left line is empty, removed when only the
\* right line is empty, and modified otherwise; the four tallies add up to
\* total, the longer line count.
C22_TextFileTally ==
  [][(/\ ComparesIn(TextMode)
      /\ leftFile.content.kind = "string"
      /\ rightFile.content.kind = "string") =>
       LET claimed(L, R) ==
             LET total == IF Len(L) >= Len(R) THEN Len(L) ELSE Len(R)
                 l(i) == IF i <= Len(L) THEN L[i] ELSE << >>
                 r(i) == IF i <= Len(R) THEN R[i] ELSE << >>
                 class(i) ==
                   IF l(i) = r(i) THEN "unchanged"
                   ELSE IF l(i) = << >> THEN "added"
                   ELSE IF r(i) = << >> THEN "removed"
                   ELSE "modified"
                 count(c) == Cardinality({i \in 1..total : class(i) = c})
             IN  /\ diffResult'.total = total
                 /\ diffResult'.unchanged = count("unchanged")
                 /\ diffResult'.added = count("added")
                 /\ diffResult'.removed = count("removed")
                 /\ diffResult'.modified = count("modified")
                 /\ diffResult'.added + diffResult'.removed + diffResult'.modified
                      + diffResult'.unchanged = diffResult'.total
       IN  claimed(LinesOfText(BytesOf(leftFile.content)),
                   LinesOfText(BytesOf(rightFile.content)))]_vars

\* The text "a\n" has been compared with the text "\na": the first position
\* is removed, the second added
C22_Witness ==
  /\ comparisonMode = TextMode
  /\ leftFile.content.kind = "string"
  /\ rightFile.content.kind = "string"
  /\ leftFile.content.units = << 97, LineFeed >>
  /\ rightFile.content.units = << LineFeed, 97 >>
  /\ diffResult = [present |-> TRUE, added |-> 1, removed |-> 1, modified |-> 0,
                   unchanged |-> 0, total |-> 2]
  /\ lastToast = "File Comparison Complete"

\* Two pictures that decode are held
BothDecodable ==
  /\ leftImage.present /\ leftImage.decodable
  /\ rightImage.present /\ rightImage.decodable

\* C23: the tally of the pictures held has added = removed = 0, total = canvas
\* width x canvas height, the number of pixels the loop scans, modified = the
\* number of those pixels whose colour distance exceeds 30 and
\* unchanged = total - modified.
C23_ImageTally ==
  BothDecodable =>
    LET claimed(scanned, totalPixels, tally) ==
          /\ tally.added = 0
          /\ tally.removed = 0
          /\ totalPixels[1] = scanned * totalPixels[2]
          /\ tally.modified = DifferentPixels(leftImage, rightImage)
          /\ tally.modified <= scanned
          /\ tally.unchanged = scanned - tally.modified
    IN  claimed(CanvasWidth(leftImage, rightImage) * CanvasHeight(leftImage, rightImage),
                TotalPixels(leftImage, rightImage),
                ImageTally(leftImage, rightImage))

SegmentsHeld ==
  DiffAt(diffGranularity,
         ProcessedLeft(leftText, ignoreCase, ignoreWhitespace),
         ProcessedRight(rightText, ignoreCase, ignoreWhitespace))

\* C25: the result of a text comparison has added = the number of segments
\* tagged added, removed = the number tagged removed, unchanged = the number
\* tagged neither, total = the number of segments and modified = 0; so
\* added + removed + unchanged = total.
C25_TextTally ==
  (Compared /\ diffResult.present) =>
    LET claimed(segments) ==
          LET tagged(tag) ==
                {k \in DOMAIN segments :
                   CASE tag = "added" -> segments[k].added
                     [] tag = "removed" -> segments[k].removed
                     [] OTHER -> ~segments[k].added /\ ~segments[k].removed}
          IN  /\ diffResult.added = Cardinality(tagged("added"))
              /\ diffResult.removed = Cardinality(tagged("removed"))
              /\ diffResult.unchanged = Cardinality(tagged("none"))
              /\ diffResult.total = Len(segments)
              /\ diffResult.modified = 0
              /\ diffResult.added + diffResult.removed + diffResult.unchanged
                   = diffResult.total
    IN  claimed(SegmentsHeld)

\* Two texts of words have been compared by words: a segment of more than
\* one token is counted once
C25_Witness ==
  /\ Compared
  /\ diffResult.present
  /\ diffGranularity = Words
  /\ diffResult.added >= 1
  /\ diffResult.removed >= 1
  /\ diffResult.unchanged >= 1
  /\ \E k \in DOMAIN SegmentsHeld : SegmentsHeld[k].count > 1

C27_NoStaleResult ==
  [][calculation.running =>
       /\ isProcessing
       /\ calculation'.running => calculation' = calculation
       /\ (page' = "mounted" /\ diffResult' # diffResult) =>
            /\ calculation' = NoCalculation
            /\ diffResult' = ImageTally(calculation.img1, calculation.img2)
            /\ lastToast' = "Image Analysis Complete"
       /\ (page' = "mounted" /\ ~isProcessing') => calculation' = NoCalculation
       /\ (page' = "mounted" /\ lastToast' \in Completions /\ lastToast' # lastToast) =>
            lastToast' = "Image Analysis Complete"]_vars

\* An analysis is in flight while the user, gone to the Files tab, holds two
\* files there
C27_Witness ==
  /\ page = "mounted"
  /\ activeTab = DiffModes.file
  /\ isProcessing
  /\ calculation.running
  /\ leftFile.present
  /\ rightFile.present

\* StatsPanel.getChangePercentage, as the fraction << numerator, denominator >>
GetChangePercentage(result) ==
  IF ~result.present \/ result.total = 0
  THEN << 0, 1 >>
  ELSE << (result.added + result.removed + result.modified) * 100, result.total >>

\* C28: in every result an engine delivers added + removed + modified is at
\* most total, so the change percentage StatsPanel shows lies between 0 and
\* 100, and is 0 without a result or with a total of 0.
C28_ChangesWithinTotal ==
  LET within(percentage) ==
        /\ 0 <= percentage[1]
        /\ percentage[1] <= 100 * percentage[2]
  IN  /\ diffResult.present =>
           diffResult.added + diffResult.removed + diffResult.modified <= diffResult.total
      /\ within(GetChangePercentage(diffResult))
      /\ (~diffResult.present \/ diffResult.total = 0) =>
           GetChangePercentage(diffResult)[1] = 0

(***************************************************************************)
(* The steady-mode scenario: the Files tab is open and the comparison mode *)
(* is chosen only while no file is held, so every file that is held was    *)
(* uploaded under the mode that Compare Files finds.                       *)
(***************************************************************************)

\* The mode is chosen before the first upload, or after Clear All
SetComparisonModeFirst(mode) ==
  /\ ~leftFile.present
  /\ ~rightFile.present
  /\ SetComparisonMode(mode)

SteadyModeNext ==
  \/ \E side \in {"left", "right"}, file \in Files : HandleFileUpload(side, file)
  \/ \E mode \in {Binary, TextMode, Metadata} : SetComparisonModeFirst(mode)
  \/ CompareFiles
  \/ ClearFiles

SpecSteadyMode == FileInit /\ [][SteadyModeNext]_vars

\* C29: when both files were uploaded under the mode that is in force when
\* Compare Files is pressed, the comparison finds contents of the kind the
\* mode requires and does not fail with a type mismatch, whatever the MIME
\* types of the files.
C29_NoMismatchInSteadyMode ==
  [][(CompareFiles /\ leftFile.present /\ rightFile.present) =>
       /\ TypesAccepted(comparisonMode, leftFile, rightFile)
       /\ lastToast' # "Error"]_vars

(***************************************************************************)
(* The reads scenario: the Files tab is open; files are selected, and the  *)
(* onload of each FileReader fires some time after the selection, in any   *)
(* order.                                                                  *)
(***************************************************************************)

MaxPendingReads == 2

\* input.onchange of handleFileUpload, up to reader.readAsText or
\* reader.readAsArrayBuffer: the reader is not held anywhere, and none is
\* aborted
SelectFile(side, file) ==
  /\ page = "mounted"
  /\ activeTab = DiffModes.file
  /\ Cardinality(pendingReads) < MaxPendingReads
  /\ IF file.size > MaxFileSize
     THEN /\ lastToast' = "Error"
          /\ UNCHANGED << page, activeTab, leftContent, rightContent, diffSettings,
                          diffResult, isProcessing, edits >>
          /\ UNCHANGED fileVars
     ELSE /\ pendingReads' =
               pendingReads \cup {[side |-> side,
                                   fileInfo |-> FileInfoOf(comparisonMode, file)]}
          /\ lastSelected' =
               [lastSelected EXCEPT ![side] = FileInfoOf(comparisonMode, file)]
          /\ UNCHANGED << leftFile, rightFile, comparisonMode >>
          /\ UNCHANGED appVars
  /\ UNCHANGED << codecVars, tabVars, imageVars >>

\* reader.onload of one of the readers
ReaderOnload(read) ==
  /\ read \in pendingReads
  /\ FileLoaded(read.side, read.fileInfo)
  /\ pendingReads' = pendingReads \ {read}
  /\ UNCHANGED lastSelected

\* A small file, a text file and a file over the limit
ReadFiles ==
  {FileOf(FileNameA, << >>, 1, << 97 >>, 0),
   FileOf(FileNameB, TextPlain, 2, << LineFeed >>, 0),
   FileOf(FileNameB, << >>, 1, << >>, MaxFileSize + 1)}

ReadsNext ==
  \/ \E side \in {"left", "right"}, file \in ReadFiles : SelectFile(side, file)
  \/ \E side \in {"left", "right"}, file \in ReadFiles,
          mode \in {Binary, TextMode, Metadata} :
       ReaderOnload([side |-> side, fileInfo |-> FileInfoOf(mode, file)])
  \/ \E mode \in {Binary, TextMode, Metadata} : SetComparisonMode(mode)
  \/ CompareFiles
  \/ ClearFiles

SpecReads == FileInit /\ [][ReadsNext]_vars

\* C30: once every pending read has completed, each side of the Files tab
\* holds the file that was selected last for it, and nothing if Clear All
\* came last, in whatever order the onload callbacks fired.
C30_LastSelectedHeld ==
  pendingReads = {} =>
    /\ leftFile = lastSelected.left
    /\ rightFile = lastSelected.right

====
